---- MODULE Spec2Model ----
(***************************************************************************)
(* Model of the Akamai edge-cache diagnostic scripts (akeli5.py,           *)
(* akcurl.py) and of the scripts pull.py and cleanup.py.  Python strings that the code inspects character by         *)
(* character (header values, cache keys, directive names) are sequences    *)
(* of one-character strings; fixed labels the code only emits (TTL         *)
(* sources, outcome tags) are TLA+ strings.  An Optional value is <<>>     *)
(* for None and <<v>> for a value v.                                       *)
(***************************************************************************)
EXTENDS Integers, Sequences, FiniteSets, TLC

VARIABLES
    pc,             \* position of the running call or program
    cc_tokens,      \* the directives the origin wrote into Cache-Control
    cache_control,  \* _parse_origin_ttl argument
    expires,        \* _parse_origin_ttl argument
    date_header,    \* _parse_origin_ttl argument
    origin_ttl,     \* _parse_origin_ttl result: [ttl_seconds, source]
    fallback_entered, \* the call ran the Expires/Date block (line 264 held)
    cache_key,      \* _parse_cache_key_ttl argument
    cache_key_ttl,  \* _parse_cache_key_ttl result
    main_url,       \* main's url, the URL argument of the run
    gets,           \* the GET requests issued so far
    outcome,        \* what requests.get did
    final_status,   \* main's final_status
    main_headers,   \* main's headers
    main_analysis_data, \* main's analysis_data
    report,         \* what print_analysis worked out
    stdout,         \* the lines written through console_print
    stderr,         \* the lines written through error_print
    exit_code,      \* the status the process exited with
    argv,           \* sys.argv[1:]
    fetcher,        \* the fetch function that is called on its own
    pragma_directives, \* fetch_akamai_headers' pragma_directives
    verbose,        \* fetch_akamai_headers' verbose
    fetch_result,   \* the tuple the fetch function returned
    session_info,   \* extract_analysis_data's session_info_dict
    origin_ttl_str, \* print_analysis' origin_ttl_str
    args,           \* akcurl: what argparse made of the command line
    RICH_AVAILABLE, \* akcurl: RICH_AVAILABLE, whether rich could be imported
    search_dir,     \* pull: what the file system says about search_dir
    git_dirs,       \* pull: the repositories os.walk found, in its order
    gitdir_index,   \* pull: the loop's position in git_dirs
    overall_status, \* pull: overall_status
    cwd,            \* pull: os.getcwd(): 0 where the script was started,
                    \* k in the k-th repository, -1 in search_dir
    pulled,         \* pull: the repositories `git pull --ff-only` ran in
    platform,       \* cleanup: sys.platform
    disk,           \* cleanup: the paths the regex matches that exist
    temp_file,      \* cleanup: the lines of TEMP_FILE, None without the file
    num_files,      \* cleanup: num_files
    yn_response,    \* cleanup: prompt_yn's response
    unlinked        \* cleanup: the paths remove_files has unlinked

originVars == <<cc_tokens, cache_control, expires, date_header, origin_ttl,
                fallback_entered>>

cacheKeyVars == <<cache_key, cache_key_ttl>>

mainVars == <<main_url, gets, outcome, final_status, main_headers,
              main_analysis_data, report, stdout, stderr, exit_code, argv>>

fetchVars == <<fetcher, pragma_directives, verbose, fetch_result>>

scriptVars == <<origin_ttl_str, args, RICH_AVAILABLE, search_dir, git_dirs,
                gitdir_index, overall_status, cwd, pulled, platform, disk,
                temp_file, num_files, yn_response, unlinked>>

vars == <<pc, originVars, cacheKeyVars, mainVars, fetchVars, session_info,
          scriptVars>>

(***************************************************************************)
(* Bounds of the model.                                                    *)
(***************************************************************************)
MaxCCTokens == 2
MaxKeySegs == 6

(***************************************************************************)
(* Python values.                                                          *)
(***************************************************************************)
None == <<>>
Some(v) == <<v>>

UNKNOWN == <<"u", "n", "k", "n", "o", "w", "n">>
NA == <<"N", "/", "A">>

ALPHA_UP == <<"A", "B", "C", "D", "E", "F", "G", "H", "I", "J", "K", "L", "M",
              "N", "O", "P", "Q", "R", "S", "T", "U", "V", "W", "X", "Y", "Z">>
ALPHA_LO == <<"a", "b", "c", "d", "e", "f", "g", "h", "i", "j", "k", "l", "m",
              "n", "o", "p", "q", "r", "s", "t", "u", "v", "w", "x", "y", "z">>
DIGITS == <<"0", "1", "2", "3", "4", "5", "6", "7", "8", "9">>

\* str.lower() on one character
LowerChar(c) ==
    IF \E i \in 1..26 : ALPHA_UP[i] = c
    THEN ALPHA_LO[CHOOSE i \in 1..26 : ALPHA_UP[i] = c]
    ELSE c

\* str.lower()
Lower(s) == [i \in 1..Len(s) |-> LowerChar(s[i])]

IsDigit(c) == \E i \in 1..10 : DIGITS[i] = c

DigitValue(c) == (CHOOSE i \in 1..10 : DIGITS[i] = c) - 1

\* int(<decimal digits>): a Python integer is unbounded (the digit runs of
\* the model are far below CPython's limit on the length int() converts)
RECURSIVE PyInt(_)
PyInt(ds) ==
    IF ds = <<>> THEN 0
    ELSE 10 * PyInt(SubSeq(ds, 1, Len(ds) - 1)) + DigitValue(ds[Len(ds)])

\* the literal p stands in s at index i (re.IGNORECASE when ic)
MatchAt(s, i, p, ic) ==
    /\ i >= 1
    /\ i + Len(p) - 1 <= Len(s)
    /\ \A k \in 1..Len(p) :
          IF ic THEN LowerChar(s[i + k - 1]) = LowerChar(p[k])
                ELSE s[i + k - 1] = p[k]

\* `p in s`
Contains(s, p) == \E i \in 1..(Len(s) + 1) : MatchAt(s, i, p, FALSE)

\* the end of the maximal run of digits that starts at index j: \d+ is greedy
DigitRunEnd(s, j) ==
    CHOOSE e \in j..Len(s) :
        /\ \A k \in j..e : IsDigit(s[k])
        /\ (e = Len(s) \/ ~IsDigit(s[e + 1]))

\* re.search(r"<p>(\d+)", s, re.IGNORECASE): group(1) of the leftmost match
SearchDirective(p, s) ==
    LET starts == {i \in 1..Len(s) :
                      /\ MatchAt(s, i, p, TRUE)
                      /\ i + Len(p) <= Len(s)
                      /\ IsDigit(s[i + Len(p)])}
    IN  IF starts = {} THEN None
        ELSE LET i == CHOOSE m \in starts : \A n \in starts : m <= n
                 j == i + Len(p)
             IN  Some(SubSeq(s, j, DigitRunEnd(s, j)))

RE_S_MAXAGE == <<"s", "-", "m", "a", "x", "a", "g", "e", "=">>
RE_MAXAGE == <<"m", "a", "x", "-", "a", "g", "e", "=">>
NO_CACHE == <<"n", "o", "-", "c", "a", "c", "h", "e">>
NO_STORE == <<"n", "o", "-", "s", "t", "o", "r", "e">>
PRIVATE == <<"p", "r", "i", "v", "a", "t", "e">>

\* re.search(r"no-cache|no-store|private", s, re.IGNORECASE) is not None
SearchNoCache(s) ==
    \E i \in 1..Len(s) :
        \/ MatchAt(s, i, NO_CACHE, TRUE)
        \/ MatchAt(s, i, NO_STORE, TRUE)
        \/ MatchAt(s, i, PRIVATE, TRUE)

\* str(n) of a natural number
RECURSIVE FormatInt(_)
FormatInt(n) ==
    IF n < 10 THEN <<DIGITS[n + 1]>>
    ELSE FormatInt(n \div 10) \o <<DIGITS[(n % 10) + 1]>>

\* sep.join(parts)
RECURSIVE Join(_, _)
Join(sep, parts) ==
    IF parts = <<>> THEN <<>>
    ELSE IF Len(parts) = 1 THEN parts[1]
    ELSE parts[1] \o sep \o Join(sep, Tail(parts))

BoundedSeq(S, n) == UNION {[1..k -> S] : k \in 0..n}

(***************************************************************************)
(* Python string methods the extractor uses.                               *)
(***************************************************************************)
Whitespace == {" ", "\t", "\n", "\r"}

\* the least index >= from where sep stands in s, or 0
FindFrom(s, sep, from) ==
    LET I == {i \in from..(Len(s) - Len(sep) + 1) : MatchAt(s, i, sep, FALSE)}
    IN  IF I = {} THEN 0 ELSE CHOOSE m \in I : \A n \in I : m <= n

\* s.split(sep), for a non-empty sep
RECURSIVE Split(_, _)
Split(s, sep) ==
    LET i == FindFrom(s, sep, 1)
    IN  IF i = 0 THEN <<s>>
        ELSE <<SubSeq(s, 1, i - 1)>> \o Split(SubSeq(s, i + Len(sep), Len(s)), sep)

\* s.split(sep, 1)
SplitOnce(s, sep) ==
    LET i == FindFrom(s, sep, 1)
    IN  IF i = 0 THEN <<s>>
        ELSE <<SubSeq(s, 1, i - 1), SubSeq(s, i + Len(sep), Len(s))>>

\* s.replace(old, "")
RECURSIVE Remove(_, _)
Remove(s, old) ==
    LET i == FindFrom(s, old, 1)
    IN  IF i = 0 THEN s
        ELSE SubSeq(s, 1, i - 1) \o Remove(SubSeq(s, i + Len(old), Len(s)), old)

\* s.strip()
Strip(s) ==
    LET I == {i \in 1..Len(s) : s[i] \notin Whitespace}
    IN  IF I = {} THEN <<>>
        ELSE SubSeq(s, CHOOSE m \in I : \A n \in I : m <= n,
                       CHOOSE m \in I : \A n \in I : m >= n)

UpperChar(c) ==
    IF \E i \in 1..26 : ALPHA_LO[i] = c
    THEN ALPHA_UP[CHOOSE i \in 1..26 : ALPHA_LO[i] = c]
    ELSE c

\* s.upper()
NoUpper(s) == s

Upper(s) == [i \in 1..Len(s) |-> UpperChar(s[i])]

(***************************************************************************)
(* Dates.  The header values of the model are RFC 5322 dates of one day,   *)
(* "Thu, 01 Jan 2026 HH:MM:SS GMT", and strings that are no date.          *)
(***************************************************************************)
DATE_PREFIX == <<"T", "h", "u", ",", " ", "0", "1", " ", "J", "a", "n", " ",
                 "2", "0", "2", "6", " ">>
DATE_SUFFIX == <<" ", "G", "M", "T">>

\* email.utils.parsedate_to_datetime on the dates of the model: the seconds
\* since that day's midnight, or None where it raises ValueError
parsedate_to_datetime(s) ==
    IF /\ Len(s) = Len(DATE_PREFIX) + 8 + Len(DATE_SUFFIX)
       /\ SubSeq(s, 1, Len(DATE_PREFIX)) = DATE_PREFIX
       /\ SubSeq(s, Len(DATE_PREFIX) + 9, Len(s)) = DATE_SUFFIX
       /\ \A k \in {1, 2, 4, 5, 7, 8} : IsDigit(s[Len(DATE_PREFIX) + k])
       /\ \A k \in {3, 6} : s[Len(DATE_PREFIX) + k] = ":"
    THEN LET t == SubSeq(s, Len(DATE_PREFIX) + 1, Len(DATE_PREFIX) + 8)
         IN  Some(3600 * PyInt(SubSeq(t, 1, 2)) + 60 * PyInt(SubSeq(t, 4, 5))
                  + PyInt(SubSeq(t, 7, 8)))
    ELSE None

\* the names bound in akeli5's module namespace by its imports
ModuleImports ==
    {"requests", "sys", "urlparse", "unquote", "re", "parsedate_to_datetime",
     "Optional", "Tuple", "Dict", "Any", "Callable", "http", "Console", "Text"}

\* evaluating the global name n raises NameError unless the module binds it
NameError(n) == n \notin ModuleImports

(***************************************************************************)
(* _parse_origin_ttl (akeli5.py).  A call returns (ttl_seconds, source),   *)
(* or raises: `raised` then names the exception.                           *)
(***************************************************************************)
TtlResult(t, src) == [ttl_seconds |-> t, source |-> src, raised |-> None]

Raise(exc) == [ttl_seconds |-> None, source |-> "", raised |-> Some(exc)]

PreferMaxAge(s_maxage_match, maxage_match) ==
    IF maxage_match # None
    THEN TtlResult(Some(PyInt(maxage_match[1])), "max-age")
    ELSE IF s_maxage_match # None
    THEN TtlResult(Some(PyInt(s_maxage_match[1])), "s-maxage")
    ELSE TtlResult(None, "unknown")

\* if s_maxage_match: ... elif maxage_match: ...
ChooseCacheControlTtl(s_maxage_match, maxage_match) ==
    IF s_maxage_match # None
    THEN TtlResult(Some(PyInt(s_maxage_match[1])), "s-maxage")
    ELSE IF maxage_match # None
    THEN TtlResult(Some(PyInt(maxage_match[1])), "max-age")
    ELSE TtlResult(None, "unknown")

OverrideKeepsTtl(chosen, no_cache_match) ==
    IF no_cache_match
    THEN TtlResult(chosen.ttl_seconds,
                   IF chosen.ttl_seconds # None /\ chosen.ttl_seconds[1] > 0
                   THEN chosen.source \o " (overridden by no-cache/private)"
                   ELSE "no-cache/private")
    ELSE chosen

OverridePlainLabel(chosen, no_cache_match) ==
    IF no_cache_match THEN TtlResult(Some(0), "no-cache/private") ELSE chosen

OverrideOnlyChosen(chosen, no_cache_match) ==
    IF no_cache_match /\ chosen.ttl_seconds # None
    THEN TtlResult(Some(0),
                   IF chosen.ttl_seconds[1] > 0
                   THEN chosen.source \o " (overridden by no-cache/private)"
                   ELSE "no-cache/private")
    ELSE chosen

\* if no_cache_match: source = ... ; ttl_seconds = 0
\* (`ttl_seconds and ttl_seconds > 0` is false for None and for 0, and the
\* `and` keeps None from being compared with 0)
ApplyNoCacheOverride(chosen, no_cache_match) ==
    IF no_cache_match
    THEN TtlResult(Some(0),
                   IF chosen.ttl_seconds # None /\ chosen.ttl_seconds[1] > 0
                   THEN chosen.source \o " (overridden by no-cache/private)"
                   ELSE "no-cache/private")
    ELSE chosen

\* the `if cache_control != "unknown":` block
ParseCacheControl(cc) ==
    IF cc # UNKNOWN
    THEN ApplyNoCacheOverride(
             ChooseCacheControlTtl(SearchDirective(RE_S_MAXAGE, cc),
                                   SearchDirective(RE_MAXAGE, cc)),
             SearchNoCache(cc))
    ELSE TtlResult(None, "unknown")

FallbackOnFalsyTtl(after_cc, exp, date) ==
    /\ after_cc.raised = None
    /\ after_cc.ttl_seconds \in {None, Some(0)}
    /\ exp # UNKNOWN
    /\ date # UNKNOWN

\* the guard of the Expires/Date block
FallbackEntered(after_cc, exp, date) ==
    /\ after_cc.raised = None
    /\ after_cc.ttl_seconds = None
    /\ exp # UNKNOWN
    /\ date # UNKNOWN

\* the exception the try block raises, or None: parsedate_to_datetime
\* rejects a value (ValueError), or the name `timezone`, which is looked up
\* after the first parse, is not bound (NameError)
TryRaises(exp, date) ==
    IF parsedate_to_datetime(exp) = None THEN Some("ValueError")
    ELSE IF NameError("timezone") THEN Some("NameError")
    ELSE IF parsedate_to_datetime(date) = None THEN Some("ValueError")
    ELSE None

\* the body of the try block when nothing in it raises
ExpiresDelta(exp, date) ==
    LET expires_dt == parsedate_to_datetime(exp)[1]
        date_dt == parsedate_to_datetime(date)[1]
    IN  IF expires_dt > date_dt
        THEN TtlResult(Some(expires_dt - date_dt), "Expires header")
        ELSE TtlResult(Some(0), "Expires header (past date)")

FallbackCatchesValueError(after_cc, exp, date) ==
    IF FallbackEntered(after_cc, exp, date)
    THEN IF TryRaises(exp, date) = None THEN ExpiresDelta(exp, date)
         ELSE IF TryRaises(exp, date) = Some("ValueError") THEN after_cc
         ELSE Raise(TryRaises(exp, date)[1])
    ELSE after_cc

\* if ttl_seconds is None and ...: try: ... except Exception: pass
ExpiresFallback(after_cc, exp, date) ==
    IF FallbackEntered(after_cc, exp, date)
    THEN IF TryRaises(exp, date) # None THEN after_cc
         ELSE ExpiresDelta(exp, date)
    ELSE after_cc

_parse_origin_ttl(cc, exp, date) ==
    ExpiresFallback(ParseCacheControl(cc), exp, date)

(***************************************************************************)
(* _parse_cache_key_ttl (akeli5.py):                                       *)
(* re.search(r"/(?:S/)?L/[^/]+/[^/]+/([^/]+)/", cache_key).                *)
(***************************************************************************)
\* the end of the maximal run of non-slash characters that starts at
\* index j (j - 1 for an empty run): [^/]+ before a literal "/" is that run
NonSlashRunEnd(s, j) ==
    CHOOSE e \in (j - 1)..Len(s) :
        /\ \A k \in j..e : s[k] # "/"
        /\ (e = Len(s) \/ s[e + 1] = "/")

\* [^/]+/ at index j: the index after the slash, or 0 for no match
SegmentAt(s, j) ==
    LET e == NonSlashRunEnd(s, j)
    IN  IF j <= Len(s) /\ e >= j /\ e + 1 <= Len(s) THEN e + 2 ELSE 0

RestOneOpaque(s, j) ==
    IF MatchAt(s, j, <<"L", "/">>, FALSE)
    THEN LET a == SegmentAt(s, j + 2)
             c == IF a = 0 THEN 0 ELSE SegmentAt(s, a)
         IN  IF c = 0 THEN None ELSE Some(SubSeq(s, a, c - 2))
    ELSE None

\* L/[^/]+/[^/]+/([^/]+)/ at index j: group(1), or None for no match
KeyRestAt(s, j) ==
    IF MatchAt(s, j, <<"L", "/">>, FALSE)
    THEN LET a == SegmentAt(s, j + 2)
             b == IF a = 0 THEN 0 ELSE SegmentAt(s, a)
             c == IF b = 0 THEN 0 ELSE SegmentAt(s, b)
         IN  IF c = 0 THEN None ELSE Some(SubSeq(s, b, c - 2))
    ELSE None

\* the whole pattern at index i: (?:S/)? is tried first with S/, then without
KeyMatchAt(s, i) ==
    IF ~MatchAt(s, i, <<"/">>, FALSE) THEN None
    ELSE IF MatchAt(s, i + 1, <<"S", "/">>, FALSE) /\ KeyRestAt(s, i + 3) # None
    THEN KeyRestAt(s, i + 3)
    ELSE KeyRestAt(s, i + 1)

_parse_cache_key_ttl(key) ==
    IF key = <<>> \/ key = UNKNOWN THEN None
    ELSE LET starts == {i \in 1..Len(key) : KeyMatchAt(key, i) # None}
         IN  IF starts = {} THEN None
             ELSE KeyMatchAt(key, CHOOSE m \in starts : \A n \in starts : m <= n)

(***************************************************************************)
(* parse_session_info (akeli5.py).  A dict is a function on its keys.      *)
(***************************************************************************)
ASCII_PRINTABLE ==
    <<" ", "!", "\"", "#", "$", "%", "&", "'", "(", ")", "*", "+", ",",
      "-", ".", "/", "0", "1", "2", "3", "4", "5", "6", "7", "8",
      "9", ":", ";", "<", "=", ">", "?", "@", "A", "B", "C", "D",
      "E", "F", "G", "H", "I", "J", "K", "L", "M", "N", "O", "P",
      "Q", "R", "S", "T", "U", "V", "W", "X", "Y", "Z", "[", "\\",
      "]", "^", "_", "GRAVE", "a", "b", "c", "d", "e", "f", "g", "h",
      "i", "j", "k", "l", "m", "n", "o", "p", "q", "r", "s", "t",
      "u", "v", "w", "x", "y", "z", "{", "|", "}", "~">>
HEX_DIGITS ==
    <<"0", "1", "2", "3", "4", "5", "6", "7", "8", "9", "a", "b", "c",
      "d", "e", "f">>

IsHex(c) == \E i \in 1..16 : HEX_DIGITS[i] = LowerChar(c)
HexValue(c) == (CHOOSE i \in 1..16 : HEX_DIGITS[i] = LowerChar(c)) - 1

\* urllib.parse.unquote on %XX escapes of printable ASCII characters (the
\* escapes of the model; "GRAVE" stands for the backquote, which a TLA+
\* string cannot hold); a % that two hex digits do not follow is kept
RECURSIVE unquote(_)
unquote(s) ==
    IF s = <<>> THEN <<>>
    ELSE IF /\ s[1] = "%"
            /\ Len(s) >= 3
            /\ IsHex(s[2])
            /\ IsHex(s[3])
            /\ 16 * HexValue(s[2]) + HexValue(s[3]) \in 32..126
    THEN <<ASCII_PRINTABLE[16 * HexValue(s[2]) + HexValue(s[3]) - 31]>>
             \o unquote(SubSeq(s, 4, Len(s)))
    ELSE <<s[1]>> \o unquote(Tail(s))

NAME_EQ == <<"n", "a", "m", "e", "=">>
VALUE_SEP == <<";", " ", "v", "a", "l", "u", "e", "=">>
FULL_LOCATION_SEP ==
    <<";", " ", "f", "u", "l", "l", "_", "l", "o", "c", "a", "t", "i",
      "o", "n", "_", "i", "d", "=">>
UA_IDENTIFIER ==
    <<"U", "A", "_", "I", "D", "E", "N", "T", "I", "F", "I", "E", "R">>
\* the names extract_analysis_data looks up in session_info_dict
SessionName ==
    [AKA_PM_PROPERTY_NAME |->
         <<"A", "K", "A", "_", "P", "M", "_", "P", "R", "O", "P", "E", "R",
         "T", "Y", "_", "N", "A", "M", "E">>,
     AKA_PM_PROPERTY_VERSION |->
         <<"A", "K", "A", "_", "P", "M", "_", "P", "R", "O", "P", "E", "R",
         "T", "Y", "_", "V", "E", "R", "S", "I", "O", "N">>,
     AKA_PM_FWD_URL |->
         <<"A", "K", "A", "_", "P", "M", "_", "F", "W", "D", "_", "U", "R",
         "L">>,
     AKA_PM_SR_ENABLED |->
         <<"A", "K", "A", "_", "P", "M", "_", "S", "R", "_", "E", "N", "A",
         "B", "L", "E", "D">>,
     AKA_PM_TD_ENABLED |->
         <<"A", "K", "A", "_", "P", "M", "_", "T", "D", "_", "E", "N", "A",
         "B", "L", "E", "D">>,
     PMUSER_CITY |->
         <<"P", "M", "U", "S", "E", "R", "_", "C", "I", "T", "Y">>,
     PMUSER_COUNTRY |->
         <<"P", "M", "U", "S", "E", "R", "_", "C", "O", "U", "N", "T", "R",
         "Y">>]

EmptyDict == [k \in {} |-> <<>>]

DictSetDefault(d, key, value) ==
    [k \in DOMAIN d \cup {key} |-> IF k \in DOMAIN d THEN d[k] ELSE value]

\* info_dict[key] = value
DictSet(d, key, value) ==
    [k \in DOMAIN d \cup {key} |-> IF k = key THEN value ELSE d[k]]

\* d.get(key, default)
DictGet(d, key, default) == IF key \in DOMAIN d THEN d[key] ELSE default

StoreUncut(info_dict, pair) ==
    LET parts == SplitOnce(pair, VALUE_SEP)
    IN  DictSet(info_dict, Strip(Remove(parts[1], NAME_EQ)), Strip(parts[2]))

\* the body of the loop for one accepted pair
StorePair(info_dict, pair) ==
    LET parts == SplitOnce(pair, VALUE_SEP)
        name_part == Strip(Remove(parts[1], NAME_EQ))
        value_part == Strip(parts[2])
        cut == IF Contains(value_part, FULL_LOCATION_SEP)
               THEN Split(value_part, FULL_LOCATION_SEP)[1]
               ELSE value_part
    IN  DictSet(info_dict, name_part,
                IF name_part = UA_IDENTIFIER THEN unquote(cut) ELSE cut)

\* for pair in pairs: if "name=" in pair and "; value=" in pair: ...
RECURSIVE ParsePairs(_, _)
ParsePairs(info_dict, pairs) ==
    IF pairs = <<>> THEN info_dict
    ELSE ParsePairs(
             IF Contains(pairs[1], NAME_EQ) /\ Contains(pairs[1], VALUE_SEP)
             THEN StorePair(info_dict, pairs[1])
             ELSE info_dict,
             Tail(pairs))

parse_session_info(session_info_value) ==
    IF session_info_value = <<>> THEN EmptyDict
    ELSE ParsePairs(EmptyDict, Split(session_info_value, <<",">>))

(***************************************************************************)
(* extract_analysis_data (akeli5.py).  A header map is a function from     *)
(* header names, as the server wrote them, to values.                      *)
(***************************************************************************)
\* the keys extract_analysis_data looks up in headers_lower
LowerName ==
    [x_cache |-> <<"x", "-", "c", "a", "c", "h", "e">>,
     x_check_cacheable |->
         <<"x", "-", "c", "h", "e", "c", "k", "-", "c", "a", "c", "h", "e",
         "a", "b", "l", "e">>,
     x_cache_key |->
         <<"x", "-", "c", "a", "c", "h", "e", "-", "k", "e", "y">>,
     x_true_cache_key |->
         <<"x", "-", "t", "r", "u", "e", "-", "c", "a", "c", "h", "e", "-",
         "k", "e", "y">>,
     x_cache_server |->
         <<"x", "-", "c", "a", "c", "h", "e", "-", "s", "e", "r", "v", "e",
         "r">>,
     x_serial |-> <<"x", "-", "s", "e", "r", "i", "a", "l">>,
     x_akamai_request_id |->
         <<"x", "-", "a", "k", "a", "m", "a", "i", "-", "r", "e", "q", "u",
         "e", "s", "t", "-", "i", "d">>,
     x_akamai_pragma_client_ip |->
         <<"x", "-", "a", "k", "a", "m", "a", "i", "-", "p", "r", "a", "g",
         "m", "a", "-", "c", "l", "i", "e", "n", "t", "-", "i", "p">>,
     x_origin_server |->
         <<"x", "-", "o", "r", "i", "g", "i", "n", "-", "s", "e", "r", "v",
         "e", "r">>,
     x_edgeconnect_midmile_rtt |->
         <<"x", "-", "e", "d", "g", "e", "c", "o", "n", "n", "e", "c", "t",
         "-", "m", "i", "d", "m", "i", "l", "e", "-", "r", "t", "t">>,
     x_edgeconnect_origin_mex_latency |->
         <<"x", "-", "e", "d", "g", "e", "c", "o", "n", "n", "e", "c", "t",
         "-", "o", "r", "i", "g", "i", "n", "-", "m", "e", "x", "-", "l", "a",
         "t", "e", "n", "c", "y">>,
     date |-> <<"d", "a", "t", "e">>,
     content_type |->
         <<"c", "o", "n", "t", "e", "n", "t", "-", "t", "y", "p", "e">>,
     content_length |->
         <<"c", "o", "n", "t", "e", "n", "t", "-", "l", "e", "n", "g", "t",
         "h">>,
     last_modified |->
         <<"l", "a", "s", "t", "-", "m", "o", "d", "i", "f", "i", "e", "d">>,
     etag |-> <<"e", "t", "a", "g">>,
     expires |-> <<"e", "x", "p", "i", "r", "e", "s">>,
     cache_control |->
         <<"c", "a", "c", "h", "e", "-", "c", "o", "n", "t", "r", "o", "l">>,
     vary |-> <<"v", "a", "r", "y">>,
     x_akamai_staging |->
         <<"x", "-", "a", "k", "a", "m", "a", "i", "-", "s", "t", "a", "g",
         "i", "n", "g">>,
     x_akamai_session_info |->
         <<"x", "-", "a", "k", "a", "m", "a", "i", "-", "s", "e", "s", "s",
         "i", "o", "n", "-", "i", "n", "f", "o">>]
FROM_WORD == <<"f", "r", "o", "m">>

FROM_SEP == <<" ", "f", "r", "o", "m", " ">>
ESSL == <<"E", "S", "S", "L">>
AKAMAI_STAGING ==
    <<"A", "k", "a", "m", "a", "i", " ", "S", "t", "a", "g", "i", "n", "g">>
AKAMAI_PRODUCTION ==
    <<"A", "k", "a", "m", "a", "i", " ", "P", "r", "o", "d", "u", "c",
      "t", "i", "o", "n">>

GetOrNone(headers, key, default) ==
    IF \E k \in DOMAIN headers : Lower(k) = key
    THEN headers[CHOOSE k \in DOMAIN headers : Lower(k) = key]
    ELSE None

ExactGet(headers, key, default) ==
    IF key \in DOMAIN headers THEN headers[key] ELSE default

\* headers_lower = {k.lower(): v for k, v in headers.items()}
\* headers_lower.get(key, default)
LowerGet(headers, key, default) ==
    IF \E k \in DOMAIN headers : Lower(k) = key
    THEN headers[CHOOSE k \in DOMAIN headers : Lower(k) = key]
    ELSE default

extract_analysis_data(headers) ==
    LET cache_status_raw == LowerGet(headers, LowerName.x_cache, NA)
        session_info_dict ==
            parse_session_info(
                LowerGet(headers, LowerName.x_akamai_session_info, <<>>))
    IN  [cache_status_raw |-> cache_status_raw,
         cache_status |->
             IF cache_status_raw # NA THEN Split(cache_status_raw, <<" ">>)[1]
             ELSE NA,
         cache_server_hostname |->
             IF Contains(cache_status_raw, FROM_SEP)
             THEN Split(Split(cache_status_raw, FROM_SEP)[2], <<" ">>)[1]
             ELSE NA,
         cacheability |-> LowerGet(headers, LowerName.x_check_cacheable, NA),
         cache_key |-> LowerGet(headers, LowerName.x_cache_key, NA),
         true_cache_key |-> LowerGet(headers, LowerName.x_true_cache_key, NA),
         edge_server |-> LowerGet(headers, LowerName.x_cache_server, NA),
         serial |-> LowerGet(headers, LowerName.x_serial, NA),
         request_id |-> LowerGet(headers, LowerName.x_akamai_request_id, NA),
         client_ip |->
             Strip(Split(LowerGet(headers, LowerName.x_akamai_pragma_client_ip, NA),
                         <<",">>)[1]),
         origin_server |-> LowerGet(headers, LowerName.x_origin_server, NA),
         midmile_rtt |->
             LowerGet(headers, LowerName.x_edgeconnect_midmile_rtt, NA),
         origin_latency |->
             LowerGet(headers, LowerName.x_edgeconnect_origin_mex_latency, NA),
         date |-> LowerGet(headers, LowerName.date, NA),
         content_type |-> LowerGet(headers, LowerName.content_type, NA),
         content_length |-> LowerGet(headers, LowerName.content_length, NA),
         last_modified |-> LowerGet(headers, LowerName.last_modified, NA),
         etag |-> LowerGet(headers, LowerName.etag, NA),
         expires |-> LowerGet(headers, LowerName.expires, NA),
         cache_control |-> LowerGet(headers, LowerName.cache_control, NA),
         vary |-> LowerGet(headers, LowerName.vary, NA),
         akamai_network |->
             IF Upper(LowerGet(headers, LowerName.x_akamai_staging, <<>>)) = ESSL
             THEN AKAMAI_STAGING ELSE AKAMAI_PRODUCTION,
         property_name |->
             DictGet(session_info_dict, SessionName.AKA_PM_PROPERTY_NAME, NA),
         property_version |->
             DictGet(session_info_dict, SessionName.AKA_PM_PROPERTY_VERSION, NA),
         fwd_url |-> DictGet(session_info_dict, SessionName.AKA_PM_FWD_URL, NA),
         sr_enabled |->
             DictGet(session_info_dict, SessionName.AKA_PM_SR_ENABLED, NA),
         td_enabled |->
             DictGet(session_info_dict, SessionName.AKA_PM_TD_ENABLED, NA),
         client_city |->
             DictGet(session_info_dict, SessionName.PMUSER_CITY, NA),
         client_country |->
             DictGet(session_info_dict, SessionName.PMUSER_COUNTRY, NA)]

GetRaw(data, key, default) ==
    IF key \in DOMAIN data THEN data[key] ELSE default

\* val = data.get(key, default); str(val) if val and val != "N/A" else default
_get_analysis_value(data, key, default) ==
    LET val == IF key \in DOMAIN data THEN data[key] ELSE default
    IN  IF val # <<>> /\ val # NA THEN val ELSE default

PRODUCTION == <<"P", "r", "o", "d", "u", "c", "t", "i", "o", "n">>

(***************************************************************************)
(* _format_ttl_string and the "Cache TTL" line of print_analysis           *)
(* (akeli5.py).                                                            *)
(***************************************************************************)
\* the texts of _format_ttl_string and of the Cache TTL line
TtlText ==
    [zero |->
         <<"0", " ", "s", "e", "c", "o", "n", "d", "s", " ", "(", "e", "f",
         "f", "e", "c", "t", "i", "v", "e", "l", "y", " ", "n", "o", "t", " ",
         "c", "a", "c", "h", "e", "d", " ", "o", "r", " ", "m", "u", "s", "t",
         " ", "r", "e", "v", "a", "l", "i", "d", "a", "t", "e", ")">>,
     seconds |-> <<" ", "s", "e", "c", "o", "n", "d", "s">>,
     minutes |-> <<" ", "m", "i", "n", "u", "t", "e", "s">>,
     hours |-> <<" ", "h", "o", "u", "r", "s">>,
     days |-> <<" ", "d", "a", "y", "s">>,
     unknown |-> <<"U", "n", "k", "n", "o", "w", "n">>]

\* _format_ttl_string with every threshold taken one second late
FormatInclusive(ttl_seconds) ==
    IF ttl_seconds = None THEN UNKNOWN
    ELSE LET n == ttl_seconds[1]
         IN  IF n = 0 THEN TtlText.zero
             ELSE IF n <= 60 THEN FormatInt(n) \o TtlText.seconds
             ELSE IF n <= 3600 THEN FormatInt(n \div 60) \o TtlText.minutes
             ELSE IF n <= 86400 THEN FormatInt(n \div 3600) \o TtlText.hours
             ELSE FormatInt(n \div 86400) \o TtlText.days

_format_ttl_string(ttl_seconds) ==
    IF ttl_seconds = None THEN UNKNOWN
    ELSE LET n == ttl_seconds[1]
         IN  IF n = 0 THEN TtlText.zero
             ELSE IF n < 60 THEN FormatInt(n) \o TtlText.seconds
             ELSE IF n < 3600 THEN FormatInt(n \div 60) \o TtlText.minutes
             ELSE IF n < 86400 THEN FormatInt(n \div 3600) \o TtlText.hours
             ELSE FormatInt(n \div 86400) \o TtlText.days

\* the "Cache TTL" line: the value shown, who states it, and the origin
\* header named for an origin TTL
TtlLine(value, according_to, origin_source) ==
    [value |-> value, according_to |-> according_to,
     origin_source |-> origin_source]

\* if cache_key_ttl_str: ... elif origin_ttl_seconds is not None: ... else: ...
CacheTtlLine(cache_key_ttl_str, origin) ==
    IF cache_key_ttl_str # None /\ cache_key_ttl_str # Some(<<>>)
    THEN TtlLine(cache_key_ttl_str[1], "Akamai's Cache Key", "")
    ELSE IF origin.ttl_seconds # None
    THEN TtlLine(_format_ttl_string(origin.ttl_seconds), "origin", origin.source)
    ELSE TtlLine(TtlText.unknown, "", "")

TrueCacheKeyFirst(cache_key_val, true_cache_key_val) ==
    IF _parse_cache_key_ttl(true_cache_key_val) \notin {None, Some(<<>>)}
    THEN _parse_cache_key_ttl(true_cache_key_val)
    ELSE _parse_cache_key_ttl(cache_key_val)

\* _parse_cache_key_ttl(cache_key) or _parse_cache_key_ttl(true_cache_key)
CacheKeyTtlStr(cache_key_val, true_cache_key_val) ==
    IF _parse_cache_key_ttl(cache_key_val) \notin {None, Some(<<>>)}
    THEN _parse_cache_key_ttl(cache_key_val)
    ELSE _parse_cache_key_ttl(true_cache_key_val)

\* what print_analysis works out for the "Cache TTL" and "Network" lines
print_analysis(analysis_data) ==
    LET cache_key_val == _get_analysis_value(analysis_data, "cache_key", UNKNOWN)
        true_cache_key_val ==
            _get_analysis_value(analysis_data, "true_cache_key", UNKNOWN)
        cache_control_val ==
            _get_analysis_value(analysis_data, "cache_control", UNKNOWN)
        expires_val == _get_analysis_value(analysis_data, "expires", UNKNOWN)
        date_val == _get_analysis_value(analysis_data, "date", UNKNOWN)
        origin == _parse_origin_ttl(cache_control_val, expires_val, date_val)
    IN  [cache_key |-> cache_key_val,
         true_cache_key |-> true_cache_key_val,
         cache_control_val |-> cache_control_val,
         expires_val |-> expires_val,
         date_val |-> date_val,
         akamai_network |->
             _get_analysis_value(analysis_data, "akamai_network", PRODUCTION),
         raised |-> origin.raised,
         cache_ttl |->
             CacheTtlLine(CacheKeyTtlStr(cache_key_val, true_cache_key_val),
                          origin)]

(***************************************************************************)
(* is_valid_url (akeli5.py), with urllib.parse.urlparse on URLs without    *)
(* whitespace, brackets and control characters.                            *)
(***************************************************************************)
SchemeChars == {"+", "-", "."}

IsAlpha(c) == \E i \in 1..26 : ALPHA_UP[i] = c \/ ALPHA_LO[i] = c

\* urlparse(url).scheme and what follows it
UrlScheme(url) ==
    LET i == FindFrom(url, <<":">>, 1)
    IN  IF /\ i > 1
           /\ IsAlpha(url[1])
           /\ \A k \in 1..(i - 1) :
                 IsAlpha(url[k]) \/ IsDigit(url[k]) \/ url[k] \in SchemeChars
        THEN [scheme |-> Lower(SubSeq(url, 1, i - 1)),
              rest |-> SubSeq(url, i + 1, Len(url))]
        ELSE [scheme |-> <<>>, rest |-> url]

\* urlparse(url).netloc
UrlNetloc(url) ==
    LET rest == UrlScheme(url).rest
    IN  IF MatchAt(rest, 1, <<"/", "/">>, FALSE)
        THEN LET E == {k \in 3..Len(rest) : rest[k] \in {"/", "?", "#"}}
             IN  SubSeq(rest, 3,
                        IF E = {} THEN Len(rest)
                        ELSE (CHOOSE m \in E : \A n \in E : m <= n) - 1)
        ELSE <<>>

HTTP == <<"h", "t", "t", "p">>
HTTPS == <<"h", "t", "t", "p", "s">>

AnyScheme(url) == UrlNetloc(url) # <<>>

is_valid_url(url) ==
    UrlScheme(url).scheme \in {HTTP, HTTPS} /\ UrlNetloc(url) # <<>>

(***************************************************************************)
(* fetch_headers_for_analysis (akeli5.py).                                 *)
(***************************************************************************)
DEFAULT_AKAMAI_PRAGMA_HEADERS ==
    <<<<"a", "k", "a", "m", "a", "i", "-", "x", "-", "c", "a", "c", "h",
        "e", "-", "o", "n">>,
      <<"a", "k", "a", "m", "a", "i", "-", "x", "-", "c", "a", "c", "h",
        "e", "-", "r", "e", "m", "o", "t", "e", "-", "o", "n">>,
      <<"a", "k", "a", "m", "a", "i", "-", "x", "-", "c", "h", "e", "c",
        "k", "-", "c", "a", "c", "h", "e", "a", "b", "l", "e">>,
      <<"a", "k", "a", "m", "a", "i", "-", "x", "-", "g", "e", "t", "-",
        "c", "a", "c", "h", "e", "-", "k", "e", "y">>,
      <<"a", "k", "a", "m", "a", "i", "-", "x", "-", "g", "e", "t", "-",
        "e", "x", "t", "r", "a", "c", "t", "e", "d", "-", "v", "a",
        "l", "u", "e", "s">>,
      <<"a", "k", "a", "m", "a", "i", "-", "x", "-", "g", "e", "t", "-",
        "n", "o", "n", "c", "e", "s">>,
      <<"a", "k", "a", "m", "a", "i", "-", "x", "-", "g", "e", "t", "-",
        "r", "e", "q", "u", "e", "s", "t", "-", "i", "d">>,
      <<"a", "k", "a", "m", "a", "i", "-", "x", "-", "g", "e", "t", "-",
        "r", "e", "q", "u", "e", "s", "t", "-", "t", "r", "a", "c", "e">>,
      <<"a", "k", "a", "m", "a", "i", "-", "x", "-", "g", "e", "t", "-",
        "s", "s", "l", "-", "c", "l", "i", "e", "n", "t", "-", "s",
        "e", "s", "s", "i", "o", "n", "-", "i", "d">>,
      <<"a", "k", "a", "m", "a", "i", "-", "x", "-", "g", "e", "t", "-",
        "t", "r", "u", "e", "-", "c", "a", "c", "h", "e", "-", "k",
        "e", "y">>,
      <<"a", "k", "a", "m", "a", "i", "-", "x", "-", "s", "e", "r", "i",
        "a", "l", "-", "n", "o">>,
      <<"a", "k", "a", "m", "a", "i", "-", "x", "-", "f", "e", "o", "-",
        "t", "r", "a", "c", "e">>,
      <<"a", "k", "a", "m", "a", "i", "-", "x", "-", "g", "e", "t", "-",
        "c", "l", "i", "e", "n", "t", "-", "i", "p">>,
      <<"x", "-", "a", "k", "a", "m", "a", "i", "-", "l", "o", "g", "g",
        "i", "n", "g", "-", "m", "o", "d", "e", ":", " ", "v", "e",
        "r", "b", "o", "s", "e">>>>

PRAGMA == <<"P", "r", "a", "g", "m", "a">>
USER_AGENT == <<"U", "s", "e", "r", "-", "A", "g", "e", "n", "t">>
AKELI5_USER_AGENT ==
    <<"C", "B", "C", "/", "A", "k", "a", "m", "a", "i", " ", "A", "n",
      "a", "n", "y", "s", "i", "s", "/", "1", ".", "0">>
AKCURL_USER_AGENT ==
    <<"C", "B", "C", "/", "A", "k", "a", "m", "a", "i", " ", "c", "U",
      "R", "L", "/", "1", ".", "0">>

(***************************************************************************)
(* Header values the origin can send.                                      *)
(***************************************************************************)
DateAt(hhmmss) == DATE_PREFIX \o hhmmss \o DATE_SUFFIX

\* header values of the sample responses
Sample ==
    [key_1d |->
         <<"/", "L", "/", "h", "/", "x", "/", "1", "d", "/", "y", "/">>,
     key_30s |->
         <<"/", "S", "/", "L", "/", "h", "/", "x", "/", "3", "0", "s", "/",
         "y", "/">>,
     key_no_ttl |-> <<"/", "D", "/", "h", "/", "x", "/">>,
     max_age_30 |-> <<"m", "a", "x", "-", "a", "g", "e", "=", "3", "0">>,
     x_cache_hit |->
         <<"T", "C", "P", "_", "H", "I", "T", " ", "f", "r", "o", "m", " ",
         "e", "d", "g", "e", "1", "2", "3", ".", "a", "k", "a", "m", "a", "i",
         ".", "n", "e", "t", " ", "(", "1", ")">>,
     x_cache_miss |-> <<"T", "C", "P", "_", "M", "I", "S", "S">>,
     x_cache_tab |->
         <<"T", "C", "P", "_", "H", "I", "T", "\t", "f", "r", "o",
         "m", " ", "e", "d", "g", "e", " ", "(", "1", ")">>,
     x_cache_two_spaces |-> <<"A", " ", "f", "r", "o", "m", " ", " ", "B">>,
     x_cache_from_only |-> <<" ", "f", "r", "o", "m", " ">>,
     client_ips |->
         <<" ", "1", ".", "2", ".", "3", ".", "4", " ", ",", " ", "5",
         ".", "6", ".", "7", ".", "8">>,
     essl_lower |-> <<"e", "s", "s", "l">>,
     essl_mixed |-> <<"E", "s", "S", "l">>,
     essl_space |-> <<"E", "S", "S", "L", " ">>,
     prod |-> <<"p", "r", "o", "d">>,
     seg_a1 |->
         <<"n", "a", "m", "e", "=", "a", ";", " ", "v", "a", "l", "u",
         "e", "=", "1">>,
     seg_a2 |->
         <<"n", "a", "m", "e", "=", "a", ";", " ", "v", "a", "l", "u",
         "e", "=", "2">>,
     seg_b_loc |->
         <<"n", "a", "m", "e", "=", "b", ";", " ", "v", "a", "l", "u",
         "e", "=", "3", ";", " ", "f", "u", "l", "l", "_", "l", "o",
         "c", "a", "t", "i", "o", "n", "_", "i", "d", "=", "9">>,
     seg_junk |-> <<"j", "u", "n", "k">>,
     seg_name_only |-> <<"n", "a", "m", "e", "=", "c">>,
     seg_value_only |-> <<";", " ", "v", "a", "l", "u", "e", "=", "x">>,
     seg_property |->
         <<"n", "a", "m", "e", "=", "A", "K", "A", "_", "P", "M", "_",
         "P", "R", "O", "P", "E", "R", "T", "Y", "_", "N", "A", "M",
         "E", ";", " ", "v", "a", "l", "u", "e", "=", "p", "r", "o",
         "p">>,
     s_maxage |-> <<"s", "-", "m", "a", "x", "a", "g", "e">>,
     s_maxage_mixed |-> <<"S", "-", "M", "a", "x", "A", "g", "e">>,
     max_age |-> <<"m", "a", "x", "-", "a", "g", "e">>,
     max_age_bad |-> <<"m", "a", "x", "-", "a", "g", "e", "=", "x">>,
     private_mixed |-> <<"P", "r", "i", "v", "a", "t", "e">>,
     public |-> <<"p", "u", "b", "l", "i", "c">>,
     date_noon |-> DateAt(<<"1", "2", ":", "0", "0", ":", "0", "0">>),
     date_1pm |-> DateAt(<<"1", "3", ":", "0", "0", ":", "0", "0">>),
     date_before_noon |-> DateAt(<<"1", "1", ":", "5", "9", ":", "5", "9">>),
     not_a_date |-> <<"0">>,
     directive_x |-> <<"x">>,
     \* /L/www.example.com/abc123/1d/xyz/
     key_markup |-> <<"/", "L", "/", "1", "d", "/", "h", "/", "p", "[",
                      "/", "q", "]">>,
     session_markup |->
         <<"n", "a", "m", "e", "=", "A", ";", " ", "v", "a", "l", "u", "e",
           "=", "[", "b", "]", "x", ",", " ", "n", "a", "m", "e", "=", "B",
           ";", " ", "v", "a", "l", "u", "e", "=", "y", "[", "/", "b", "]">>,
     example_key |->
         <<"/", "L", "/", "w", "w", "w", ".", "e", "x", "a", "m", "p", "l",
         "e", ".", "c", "o", "m", "/", "a", "b", "c", "1", "2", "3", "/",
         "1", "d", "/", "x", "y", "z", "/">>]

\* a Cache-Control directive: its name and, for name=<seconds>, the seconds
Directive(name, arg) == [name |-> name, arg |-> arg]

CCTokens ==
    {Directive(Sample.s_maxage, Some(60)), Directive(Sample.s_maxage, Some(0)),
     Directive(Sample.s_maxage_mixed, Some(7)),
     Directive(Sample.max_age, Some(30)), Directive(Sample.max_age, Some(120)),
     Directive(Sample.max_age, Some(0)), Directive(Sample.max_age_bad, None),
     Directive(NO_CACHE, None), Directive(NO_STORE, None),
     Directive(PRIVATE, None), Directive(Sample.private_mixed, None),
     Directive(Sample.public, None)}

RenderDirective(d) ==
    IF d.arg = None THEN d.name ELSE d.name \o <<"=">> \o FormatInt(d.arg[1])

\* the Cache-Control header value that carries the directives ds
RenderCacheControl(ds) ==
    Join(<<",", " ">>, [i \in 1..Len(ds) |-> RenderDirective(ds[i])])

\* timeout = 10
DEFAULT_TIMEOUT == 10

\* what requests.get did: the exception it raised, as the set of the classes
\* the exception is an instance of ({} when it returned), the response it
\* returned or attached to the exception, and whether e.args[0] is a tuple
\* whose second element is an http.client.HTTPException
Outcome(exception, response, http_exception_arg) ==
    [exception |-> exception, response |-> response,
     http_exception_arg |-> http_exception_arg]

Response(status_code, hdrs) == [status_code |-> status_code, headers |-> hdrs]

\* requests.exceptions: each class with the classes it derives from
exceptions ==
    [ConnectTimeout |->
         {"ConnectTimeout", "ConnectionError", "Timeout", "RequestException",
         "Exception"},
     ReadTimeout |->
         {"ReadTimeout", "Timeout", "RequestException", "Exception"},
     SSLError |->
         {"SSLError", "ConnectionError", "RequestException", "Exception"},
     ConnectionError |-> {"ConnectionError", "RequestException", "Exception"},
     TooManyRedirects |->
         {"TooManyRedirects", "RequestException", "Exception"},
     InvalidURL |-> {"InvalidURL", "RequestException", "Exception"},
     HTTPError |-> {"HTTPError", "RequestException", "Exception"},
     Other |-> {"Exception"}]

\* one line written through console_print or error_print
Line(what, status) == [what |-> what, status |-> status]

\* what a fetch function hands back, and what it wrote through error_print
FetchResult(status, hdrs, errors) ==
    [final_status |-> status, headers |-> hdrs, errors |-> errors]

TimeoutYieldsEmptyHeaders(got) ==
    IF got.exception = {}
    THEN FetchResult(Some(got.response[1].status_code),
                     Some(got.response[1].headers), <<>>)
    ELSE FetchResult(None, Some(EmptyDict),
                     <<Line("Error: Request timed out", None)>>)

ConnectionErrorFirst(got) ==
    IF got.exception = {}
    THEN FetchResult(Some(got.response[1].status_code),
                     Some(got.response[1].headers), <<>>)
    ELSE IF "ConnectionError" \in got.exception
    THEN FetchResult(None, None,
             <<Line("Error: Could not connect to the server", None)>>)
    ELSE IF "Timeout" \in got.exception
    THEN FetchResult(None, None, <<Line("Error: Request timed out", None)>>)
    ELSE FetchResult(None, None,
             <<Line("Error: An error occurred during the request", None)>>)

DropsErrorHeaders(got) ==
    IF got.exception = {} /\ got.response[1].status_code < 400
    THEN FetchResult(Some(got.response[1].status_code),
                     Some(got.response[1].headers), <<>>)
    ELSE FetchResult(None, None,
                     <<Line("Error: An error occurred during the request", None)>>)

StatusWithoutHeaders(got) ==
    IF got.exception = {}
    THEN FetchResult(Some(got.response[1].status_code),
                     Some(got.response[1].headers), <<>>)
    ELSE IF got.response # None
    THEN FetchResult(Some(got.response[1].status_code), None,
             <<Line("Error: An error occurred during the request",
                    Some(got.response[1].status_code))>>)
    ELSE FetchResult(None, None,
             <<Line("Error: An error occurred during the request", None)>>)

\* the try statement of fetch_headers_for_analysis: the first except clause
\* whose class the exception is an instance of handles it
FetchHandlers(got) ==
    IF got.exception = {}
    THEN FetchResult(Some(got.response[1].status_code),
                     Some(got.response[1].headers), <<>>)
    ELSE IF "Timeout" \in got.exception
    THEN FetchResult(None, None, <<Line("Error: Request timed out", None)>>)
    ELSE IF "SSLError" \in got.exception
    THEN FetchResult(None, None,
             <<Line("Error: SSL certificate verification failed", None)>>)
    ELSE IF "ConnectionError" \in got.exception
    THEN FetchResult(None, None,
             IF got.http_exception_arg
             THEN <<Line("Error: Connection aborted", None)>>
             ELSE <<Line("Error: Could not connect to the server", None)>>)
    ELSE IF "RequestException" \in got.exception
    THEN IF got.response # None
         THEN FetchResult(Some(got.response[1].status_code),
                  Some(got.response[1].headers),
                  <<Line("Error: An error occurred during the request",
                         Some(got.response[1].status_code))>>)
         ELSE FetchResult(None, None,
                  <<Line("Error: An error occurred during the request", None)>>)
    ELSE FetchResult(None, None, <<Line("An unexpected error occurred", None)>>)

\* req_headers of fetch_headers_for_analysis
AnalysisRequestHeaders ==
    [n \in {PRAGMA, USER_AGENT} |->
        IF n = PRAGMA THEN Join(<<",">>, DEFAULT_AKAMAI_PRAGMA_HEADERS)
        ELSE AKELI5_USER_AGENT]

\* requests.get(url, headers=req_headers, timeout=timeout, allow_redirects=True)
GetRequest(u, req_headers, timeout) ==
    [url |-> u, headers |-> req_headers, timeout |-> timeout,
     allow_redirects |-> TRUE]

RetriesOnTimeout(request, got) ==
    IF "Timeout" \in got.exception THEN <<request, request>> ELSE <<request>>

\* the GET requests one call of a fetch function issues: requests.get is
\* called once, outside any loop, whatever it does
IssuedGets(request, got) == <<request>>

ExitZeroWithHeaders(status) == 0

\* exit_code = 0 if final_status and 200 <= final_status < 400 else 1
AnalysisExitCode(status) ==
    IF status # None /\ status[1] # 0 /\ 200 <= status[1] /\ status[1] < 400
    THEN 0 ELSE 1

PragmaAlwaysSent(directives) ==
    [n \in {PRAGMA, USER_AGENT} |->
        IF n = PRAGMA THEN Join(<<",">>, directives) ELSE AKCURL_USER_AGENT]

\* req_headers of fetch_akamai_headers
AkcurlRequestHeaders(directives) ==
    IF directives = <<>>
    THEN [n \in {USER_AGENT} |-> AKCURL_USER_AGENT]
    ELSE [n \in {PRAGMA, USER_AGENT} |->
             IF n = PRAGMA THEN Join(<<",">>, directives)
             ELSE AKCURL_USER_AGENT]

\* response.raise_for_status()
raise_for_status(response) ==
    IF 400 <= response.status_code /\ response.status_code < 600
    THEN exceptions.HTTPError ELSE {}

\* the try statement of fetch_akamai_headers: the exception is the one
\* requests.get raised, or the one raise_for_status raised on its response
AkcurlFetchHandlers(got, verbose_flag) ==
    LET exc == IF got.exception = {} THEN raise_for_status(got.response[1])
               ELSE got.exception
    IN  IF exc = {}
        THEN FetchResult(Some(got.response[1].status_code),
                         Some(got.response[1].headers), <<>>)
        ELSE IF "Timeout" \in exc
        THEN FetchResult(None, None, <<Line("Error: Request timed out", None)>>)
        ELSE IF "SSLError" \in exc
        THEN FetchResult(None, None,
                 <<Line("Error: SSL certificate verification failed", None)>>)
        ELSE IF "ConnectionError" \in exc
        THEN FetchResult(None, None,
                 <<Line("Error: Could not connect to the server", None)>>)
        ELSE IF "HTTPError" \in exc
        THEN FetchResult(Some(got.response[1].status_code),
                 Some(got.response[1].headers),
                 IF verbose_flag THEN <<>>
                 ELSE <<Line("Error: HTTP",
                             Some(got.response[1].status_code))>>)
        ELSE IF "RequestException" \in exc
        THEN FetchResult(None, None,
                 <<Line("Error: An error occurred during the request", None)>>)
        ELSE FetchResult(None, None,
                 <<Line("An unexpected error occurred", None)>>)

(***************************************************************************)
(* What the network can answer.                                            *)
(***************************************************************************)
\* the header names as the server spells them
SentName ==
    [x_cache |-> <<"X", "-", "C", "a", "c", "h", "e">>,
     x_cache_key |->
         <<"X", "-", "C", "a", "c", "h", "e", "-", "K", "e", "y">>,
     x_true_cache_key |->
         <<"X", "-", "T", "r", "u", "e", "-", "C", "a", "c", "h", "e", "-",
         "K", "e", "y">>,
     cache_control |->
         <<"C", "a", "c", "h", "e", "-", "C", "o", "n", "t", "r", "o", "l">>,
     expires |-> <<"E", "x", "p", "i", "r", "e", "s">>,
     date |-> <<"D", "a", "t", "e">>,
     x_akamai_staging |->
         <<"X", "-", "A", "k", "a", "m", "a", "i", "-", "S", "t", "a",
         "g", "i", "n", "g">>,
     x_akamai_session_info |->
         <<"X", "-", "A", "k", "a", "m", "a", "i", "-", "S", "e", "s",
         "s", "i", "o", "n", "-", "I", "n", "f", "o">>,
     x_akamai_pragma_client_ip |->
         <<"X", "-", "A", "k", "a", "m", "a", "i", "-", "P", "r", "a",
         "g", "m", "a", "-", "C", "l", "i", "e", "n", "t", "-", "I",
         "P">>]
\* the URL arguments of the sample command lines
Url ==
    [https |->
         <<"h", "t", "t", "p", "s", ":", "/", "/", "a", ".", "b", "/", "c">>,
     http_upper |-> <<"H", "T", "T", "P", ":", "/", "/", "h">>,
     ftp |-> <<"f", "t", "p", ":", "/", "/", "h", "/">>,
     no_host |-> <<"h", "t", "t", "p", "s", ":", "/", "/", "/", "p">>,
     no_scheme |-> <<"a", ".", "b", "/", "c">>]

Opt ==
    [h |-> <<"-", "h">>,
     help |-> <<"-", "-", "h", "e", "l", "p">>]

Urls == {Url.https, Url.http_upper, Url.ftp, Url.no_host, Url.no_scheme}

\* the command lines: sys.argv[1:]
ArgLists ==
    {<<u>> : u \in Urls}
    \cup {<<>>, <<Opt.h>>, <<Opt.help>>, <<Opt.h, Url.https>>,
          <<Url.https, Url.https>>}

StatusCodes == {200, 304, 404, 503}

\* a choice of header values, None for a header the response does not carry
HeaderChoices ==
    [x_cache : {None, Some(Sample.x_cache_hit)},
     x_cache_key : {None, Some(Sample.key_1d), Some(Sample.key_no_ttl),
                    Some(<<>>), Some(NA)},
     x_true_cache_key : {None, Some(Sample.key_30s), Some(Sample.key_no_ttl)},
     cache_control : {None, Some(Sample.max_age_30), Some(NO_CACHE),
                      Some(Sample.public)},
     expires : {None, Some(Sample.date_1pm)},
     date : {None, Some(Sample.date_noon)}]

\* the header map that carries the chosen values
HeadersOf(c) ==
    LET pairs == {<<SentName.x_cache, c.x_cache>>,
                  <<SentName.x_cache_key, c.x_cache_key>>,
                  <<SentName.x_true_cache_key, c.x_true_cache_key>>,
                  <<SentName.cache_control, c.cache_control>>,
                  <<SentName.expires, c.expires>>, <<SentName.date, c.date>>}
        present == {p \in pairs : p[2] # None}
    IN  [n \in {p[1] : p \in present} |->
            (CHOOSE p \in present : p[1] = n)[2][1]]

ResponseHeaders == {HeadersOf(c) : c \in HeaderChoices}

RedirectHeaders == {HeadersOf(c) : c \in {h \in HeaderChoices :
    /\ h.x_cache_key = None /\ h.x_true_cache_key = None
    /\ h.cache_control = None /\ h.expires = None}}

Outcomes ==
    {Outcome({}, Some(Response(st, h)), FALSE) :
        st \in StatusCodes, h \in ResponseHeaders}
    \cup {Outcome(e, None, FALSE) :
            e \in {exceptions.ConnectTimeout, exceptions.ReadTimeout,
                   exceptions.SSLError, exceptions.ConnectionError,
                   exceptions.InvalidURL, exceptions.Other}}
    \cup {Outcome(exceptions.ConnectionError, None, TRUE)}
    \cup {Outcome(exceptions.TooManyRedirects, Some(Response(302, h)), FALSE) :
            h \in RedirectHeaders}

\* the values of the variables a specification does not use
NoResult == [ttl_seconds |-> None, source |-> "", raised |-> None]

OriginIdle ==
    /\ cc_tokens = <<>>
    /\ cache_control = UNKNOWN
    /\ expires = UNKNOWN
    /\ date_header = UNKNOWN
    /\ origin_ttl = NoResult
    /\ fallback_entered = FALSE

CacheKeyIdle ==
    /\ cache_key = UNKNOWN
    /\ cache_key_ttl = None

(***************************************************************************)
(* Spec: one run of akeli5's main, from the URL argument to the exit.      *)
(***************************************************************************)
NoOutcome == Outcome({}, None, FALSE)

MainIdle ==
    /\ argv = <<>>
    /\ main_url = <<>>
    /\ gets = <<>>
    /\ outcome = NoOutcome
    /\ final_status = None
    /\ main_headers = None
    /\ main_analysis_data = None
    /\ report = None
    /\ stdout = <<>>
    /\ stderr = <<>>
    /\ exit_code = None

NoFetchResult == [final_status |-> None, headers |-> None]

PullIdle ==
    /\ search_dir = <<>>
    /\ git_dirs = <<>>
    /\ gitdir_index = 0
    /\ overall_status = 0
    /\ cwd = 0
    /\ pulled = <<>>

CleanupIdle ==
    /\ platform = ""
    /\ disk = {}
    /\ temp_file = <<>>
    /\ num_files = 0
    /\ yn_response = ""
    /\ unlinked = <<>>

FetchIdle ==
    /\ session_info = EmptyDict
    /\ fetcher = ""
    /\ pragma_directives = <<>>
    /\ verbose = FALSE
    /\ fetch_result = NoFetchResult

Init ==
    /\ pc = "main"
    /\ OriginIdle
    /\ CacheKeyIdle
    /\ FetchIdle
    /\ argv \in ArgLists
    /\ main_url = <<>>
    /\ gets = <<>>
    /\ outcome = NoOutcome
    /\ final_status = None
    /\ main_headers = None
    /\ main_analysis_data = None
    /\ report = None
    /\ stdout = <<>>
    /\ stderr = <<>>
    /\ exit_code = None
    /\ origin_ttl_str = <<>>
    /\ args = <<>>
    /\ RICH_AVAILABLE = FALSE
    /\ PullIdle
    /\ CleanupIdle

\* if len(sys.argv) != 2 or sys.argv[1] in ["-h", "--help"]: usage, exit;
\* url = sys.argv[1]
main_args ==
    /\ pc = "main"
    /\ IF Len(argv) # 1 \/ argv[1] \in {Opt.h, Opt.help}
       THEN /\ stdout' = Append(stdout, Line("Usage:", None))
            /\ exit_code' =
                  Some(IF Len(argv) > 0 /\ argv[1] \in {Opt.h, Opt.help}
                       THEN 0 ELSE 1)
            /\ pc' = "exit"
            /\ UNCHANGED main_url
       ELSE /\ main_url' = argv[1]
            /\ pc' = "validate"
            /\ UNCHANGED <<stdout, exit_code>>
    /\ UNCHANGED <<argv, gets, outcome, final_status, main_headers,
                   main_analysis_data, report, stderr>>
    /\ UNCHANGED <<originVars, cacheKeyVars, fetchVars, session_info>>
    /\ UNCHANGED scriptVars

\* if not is_valid_url(url): error_print(...); sys.exit(1)
main_validate ==
    /\ pc = "validate"
    /\ IF is_valid_url(main_url)
       THEN /\ pc' = "fetch"
            /\ UNCHANGED <<stderr, exit_code>>
       ELSE /\ stderr' = Append(stderr, Line("Error: Invalid URL provided", None))
            /\ exit_code' = Some(1)
            /\ pc' = "exit"
    /\ UNCHANGED <<argv, main_url, gets, outcome, final_status, main_headers,
                   main_analysis_data, report, stdout>>
    /\ UNCHANGED <<originVars, cacheKeyVars, fetchVars, session_info>>
    /\ UNCHANGED scriptVars

\* final_status, headers = fetch_headers_for_analysis(url, timeout)
main_fetch ==
    /\ pc = "fetch"
    /\ \E o \in Outcomes :
          /\ outcome' = o
          /\ gets' = gets \o IssuedGets(GetRequest(main_url,
                                 AnalysisRequestHeaders, DEFAULT_TIMEOUT), o)
          /\ final_status' = FetchHandlers(o).final_status
          /\ main_headers' = FetchHandlers(o).headers
          /\ stderr' = stderr \o FetchHandlers(o).errors
    /\ pc' = "fetched"
    /\ UNCHANGED <<argv, main_url, main_analysis_data, report, stdout,
                   exit_code>>
    /\ UNCHANGED <<originVars, cacheKeyVars, fetchVars, session_info>>
    /\ UNCHANGED scriptVars

\* if final_status is not None: print_func(status line)
main_status_line ==
    /\ pc = "fetched"
    /\ IF final_status # None
       THEN IF main_headers = None
            THEN /\ stderr' = Append(stderr,
                        Line("Website answered with code:", final_status))
                 /\ UNCHANGED stdout
            ELSE /\ stdout' = Append(stdout,
                        Line("Website answered with code:", final_status))
                 /\ UNCHANGED stderr
       ELSE UNCHANGED <<stdout, stderr>>
    /\ pc' = IF main_headers # None THEN "analyse" ELSE "no_headers"
    /\ UNCHANGED <<argv, main_url, gets, outcome, final_status, main_headers,
                   main_analysis_data, report, exit_code>>
    /\ UNCHANGED <<originVars, cacheKeyVars, fetchVars, session_info>>
    /\ UNCHANGED scriptVars

\* if headers is not None:
AnalysisRuns(status, hdrs) == hdrs # None

\* analysis_data = extract_analysis_data(headers); print_analysis(...);
\* sys.exit(exit_code)
main_analyse ==
    /\ pc = "analyse"
    /\ IF AnalysisRuns(final_status, main_headers)
       THEN /\ main_analysis_data' = Some(extract_analysis_data(main_headers[1]))
            /\ report' =
                  Some(print_analysis(extract_analysis_data(main_headers[1])))
            /\ session_info' =
                  parse_session_info(
                      LowerGet(main_headers[1],
                               LowerName.x_akamai_session_info, <<>>))
            /\ stdout' = Append(stdout, Line("analysis", None))
       ELSE UNCHANGED <<main_analysis_data, report, stdout, session_info>>
    /\ exit_code' =
          Some(IF AnalysisRuns(final_status, main_headers)
                  /\ print_analysis(extract_analysis_data(main_headers[1])).raised
                       # None
               THEN 1 ELSE AnalysisExitCode(final_status))
    /\ pc' = "exit"
    /\ UNCHANGED <<argv, main_url, gets, outcome, final_status, main_headers,
                   stderr>>
    /\ UNCHANGED <<originVars, cacheKeyVars, fetchVars>>
    /\ UNCHANGED scriptVars

\* else: error_print("Could not get headers ..."); sys.exit(1)
main_no_headers ==
    /\ pc = "no_headers"
    /\ stderr' = Append(stderr,
                        Line("Could not get headers from the website.",
                             IF final_status # None /\ final_status # Some(0)
                             THEN final_status ELSE None))
    /\ exit_code' = Some(1)
    /\ pc' = "exit"
    /\ UNCHANGED <<argv, main_url, gets, outcome, final_status, main_headers,
                   main_analysis_data, report, stdout>>
    /\ UNCHANGED <<originVars, cacheKeyVars, fetchVars, session_info>>
    /\ UNCHANGED scriptVars

Next ==
    \/ main_args
    \/ main_validate
    \/ main_fetch
    \/ main_status_line
    \/ main_analyse
    \/ main_no_headers

Spec == Init /\ [][Next]_vars

(***************************************************************************)
(* SpecFetch: one call of a fetch function, fetch_akamai_headers           *)
(* (akcurl.py) on every directive list or fetch_headers_for_analysis       *)
(* (akeli5.py).                                                            *)
(***************************************************************************)
MaxDirectives == 3

\* directives a caller can pass: two of the catalog, the empty string, one
\* of its own
DirectiveLists ==
    BoundedSeq({DEFAULT_AKAMAI_PRAGMA_HEADERS[1],
                DEFAULT_AKAMAI_PRAGMA_HEADERS[2], <<>>, Sample.directive_x},
               MaxDirectives)
        \cup {DEFAULT_AKAMAI_PRAGMA_HEADERS}

FetchOutcomes ==
    {Outcome({}, Some(Response(st, h)), FALSE) :
        st \in StatusCodes, h \in RedirectHeaders}
    \cup {Outcome(e, None, FALSE) :
            e \in {exceptions.ConnectTimeout, exceptions.ReadTimeout,
                   exceptions.SSLError, exceptions.ConnectionError,
                   exceptions.InvalidURL, exceptions.Other}}
    \cup {Outcome(exceptions.ConnectionError, None, TRUE)}
    \cup {Outcome(exceptions.TooManyRedirects, Some(Response(302, h)), FALSE) :
            h \in RedirectHeaders}

InitFetch ==
    /\ pc = "call"
    /\ OriginIdle
    /\ CacheKeyIdle
    /\ argv = <<>>
    /\ main_url = Url.https
    /\ gets = <<>>
    /\ outcome = NoOutcome
    /\ final_status = None
    /\ main_headers = None
    /\ main_analysis_data = None
    /\ report = None
    /\ stdout = <<>>
    /\ stderr = <<>>
    /\ exit_code = None
    /\ fetcher \in {"fetch_akamai_headers", "fetch_headers_for_analysis"}
    /\ pragma_directives \in
          IF fetcher = "fetch_akamai_headers" THEN DirectiveLists ELSE {<<>>}
    /\ verbose \in IF fetcher = "fetch_akamai_headers" THEN BOOLEAN ELSE {FALSE}
    /\ fetch_result = NoFetchResult
    /\ session_info = EmptyDict
    /\ origin_ttl_str = <<>>
    /\ args = <<>>
    /\ RICH_AVAILABLE = FALSE
    /\ PullIdle
    /\ CleanupIdle

\* fetch_akamai_headers(url, pragma_directives, verbose)
Call_fetch_akamai_headers ==
    /\ pc = "call"
    /\ fetcher = "fetch_akamai_headers"
    /\ \E o \in FetchOutcomes :
          /\ outcome' = o
          /\ gets' = gets \o IssuedGets(GetRequest(main_url,
                                 AkcurlRequestHeaders(pragma_directives),
                                 DEFAULT_TIMEOUT), o)
          /\ fetch_result' =
                 [final_status |-> AkcurlFetchHandlers(o, verbose).final_status,
                  headers |-> AkcurlFetchHandlers(o, verbose).headers]
          /\ stderr' = stderr \o AkcurlFetchHandlers(o, verbose).errors
    /\ pc' = "return"
    /\ UNCHANGED <<argv, main_url, final_status, main_headers,
                   main_analysis_data, report, stdout, exit_code>>
    /\ UNCHANGED <<fetcher, pragma_directives, verbose>>
    /\ UNCHANGED <<originVars, cacheKeyVars, session_info>>
    /\ UNCHANGED scriptVars

\* fetch_headers_for_analysis(url, timeout)
Call_fetch_headers_for_analysis ==
    /\ pc = "call"
    /\ fetcher = "fetch_headers_for_analysis"
    /\ \E o \in FetchOutcomes :
          /\ outcome' = o
          /\ gets' = gets \o IssuedGets(GetRequest(main_url,
                                 AnalysisRequestHeaders, DEFAULT_TIMEOUT), o)
          /\ fetch_result' =
                 [final_status |-> FetchHandlers(o).final_status,
                  headers |-> FetchHandlers(o).headers]
          /\ stderr' = stderr \o FetchHandlers(o).errors
    /\ pc' = "return"
    /\ UNCHANGED <<argv, main_url, final_status, main_headers,
                   main_analysis_data, report, stdout, exit_code>>
    /\ UNCHANGED <<fetcher, pragma_directives, verbose>>
    /\ UNCHANGED <<originVars, cacheKeyVars, session_info>>
    /\ UNCHANGED scriptVars

NextFetch ==
    \/ Call_fetch_akamai_headers
    \/ Call_fetch_headers_for_analysis

SpecFetch == InitFetch /\ [][NextFetch]_vars

(***************************************************************************)
(* SpecExtract: one call of extract_analysis_data on a header map, with    *)
(* the session_info_dict it builds on the way, and print_analysis on the   *)
(* record it returned.                                                     *)
(***************************************************************************)
MaxSegments == 2

\* a choice of header values, None for a header the map does not carry:
\* either the X-Akamai-Session-Info value varies over the blobs of up to
\* MaxSegments segments, or the headers the TTL lines read vary, or the
\* other headers vary
ExtractChoices ==
    [x_cache : {None, Some(<<>>), Some(NA), Some(Sample.x_cache_hit),
                Some(Sample.x_cache_miss), Some(Sample.x_cache_tab),
                Some(Sample.x_cache_two_spaces),
                Some(Sample.x_cache_from_only)},
     x_cache_key : {None, Some(Sample.key_1d)},
     staging : {None, Some(<<>>), Some(ESSL), Some(Sample.essl_lower),
                Some(Sample.essl_mixed), Some(Sample.essl_space),
                Some(Sample.prod)},
     client_ip : {None, Some(Sample.client_ips)},
     session : {None}, x_true_cache_key : {None}, cache_control : {None},
     expires : {None}, date : {None}]
    \cup
    [x_cache : {None}, staging : {None}, client_ip : {None}, session : {None},
     x_cache_key : {None, Some(<<>>), Some(NA), Some(UNKNOWN),
                    Some(Sample.key_1d)},
     x_true_cache_key : {None, Some(NA), Some(Sample.key_30s)},
     cache_control : {None, Some(<<>>), Some(NA), Some(Sample.max_age_30)},
     expires : {None, Some(NA), Some(Sample.date_1pm)},
     date : {None, Some(<<>>), Some(Sample.date_noon)}]
    \cup
    [x_cache : {None}, x_cache_key : {None}, staging : {None},
     client_ip : {None}, x_true_cache_key : {None}, cache_control : {None},
     expires : {None}, date : {None},
     session : {Some(Join(<<",">>, segs)) :
                   segs \in BoundedSeq({<<>>, Sample.seg_a1, Sample.seg_a2,
                                        Sample.seg_b_loc, Sample.seg_junk,
                                        Sample.seg_name_only,
                                        Sample.seg_value_only,
                                        Sample.seg_property},
                                       MaxSegments)}]

\* the header map that carries the chosen values
ExtractHeadersOf(c) ==
    LET pairs == {<<SentName.x_cache, c.x_cache>>,
                  <<SentName.x_cache_key, c.x_cache_key>>,
                  <<SentName.x_akamai_staging, c.staging>>,
                  <<SentName.x_akamai_pragma_client_ip, c.client_ip>>,
                  <<SentName.x_akamai_session_info, c.session>>,
                  <<SentName.x_true_cache_key, c.x_true_cache_key>>,
                  <<SentName.cache_control, c.cache_control>>,
                  <<SentName.expires, c.expires>>, <<SentName.date, c.date>>}
        present == {p \in pairs : p[2] # None}
    IN  [n \in {p[1] : p \in present} |->
            (CHOOSE p \in present : p[1] = n)[2][1]]

\* the ways a server or a proxy can spell the header names
Spellings == {"sent", "lower", "upper", "swapped"}

\* the same header map with its names spelled another way
Respell(hdrs, spelling) ==
    LET Spell(name) ==
            CASE spelling = "sent" -> name
              [] spelling = "lower" -> Lower(name)
              [] spelling = "upper" -> Upper(name)
              [] spelling = "swapped" ->
                    [i \in 1..Len(name) |->
                        IF LowerChar(name[i]) # name[i]
                        THEN LowerChar(name[i]) ELSE UpperChar(name[i])]
    IN  [n \in {Spell(k) : k \in DOMAIN hdrs} |->
            hdrs[CHOOSE k \in DOMAIN hdrs : Spell(k) = n]]

InitExtract ==
    /\ pc = "call"
    /\ OriginIdle
    /\ CacheKeyIdle
    /\ FetchIdle
    /\ argv = <<>>
    /\ main_url = <<>>
    /\ gets = <<>>
    /\ outcome = NoOutcome
    /\ final_status = None
    /\ main_headers \in
          UNION {{Some(Respell(ExtractHeadersOf(c), sp)) :
                     sp \in IF c.session = None THEN Spellings
                            ELSE {"sent", "upper"}} :
                 c \in ExtractChoices}
    /\ main_analysis_data = None
    /\ report = None
    /\ stdout = <<>>
    /\ stderr = <<>>
    /\ exit_code = None
    /\ origin_ttl_str = <<>>
    /\ args = <<>>
    /\ RICH_AVAILABLE = FALSE
    /\ PullIdle
    /\ CleanupIdle

\* analysis_data = extract_analysis_data(headers)
Call_extract_analysis_data ==
    /\ pc = "call"
    /\ main_analysis_data' = Some(extract_analysis_data(main_headers[1]))
    /\ session_info' =
          parse_session_info(
              LowerGet(main_headers[1], LowerName.x_akamai_session_info, <<>>))
    /\ pc' = "return"
    /\ UNCHANGED <<argv, main_url, gets, outcome, final_status, main_headers,
                   report, stdout, stderr, exit_code>>
    /\ UNCHANGED <<originVars, cacheKeyVars, fetchVars>>
    /\ UNCHANGED scriptVars

\* print_analysis(analysis_data)
Call_print_analysis ==
    /\ pc = "return"
    /\ report' = Some(print_analysis(main_analysis_data[1]))
    /\ pc' = "printed"
    /\ UNCHANGED <<argv, main_url, gets, outcome, final_status, main_headers,
                   main_analysis_data, stdout, stderr, exit_code>>
    /\ UNCHANGED <<originVars, cacheKeyVars, fetchVars, session_info>>
    /\ UNCHANGED scriptVars

NextExtract ==
    \/ Call_extract_analysis_data
    \/ Call_print_analysis

SpecExtract == InitExtract /\ [][NextExtract]_vars

(***************************************************************************)
(* SpecOriginTtl: one call of _parse_origin_ttl on every argument triple.  *)
(***************************************************************************)
InitOriginTtl ==
    /\ pc = "call"
    /\ CacheKeyIdle
    /\ MainIdle
    /\ FetchIdle
    /\ cc_tokens \in BoundedSeq(CCTokens, MaxCCTokens)
    /\ cache_control \in
          {RenderCacheControl(cc_tokens)}
              \cup (IF cc_tokens = <<>> THEN {UNKNOWN} ELSE {})
    /\ expires \in
          {UNKNOWN, Sample.date_noon, Sample.date_1pm, Sample.date_before_noon,
           Sample.not_a_date}
    /\ date_header \in {UNKNOWN, Sample.date_noon, Sample.not_a_date}
    /\ origin_ttl = NoResult
    /\ fallback_entered = FALSE
    /\ origin_ttl_str = <<>>
    /\ args = <<>>
    /\ RICH_AVAILABLE = FALSE
    /\ PullIdle
    /\ CleanupIdle

Call_parse_origin_ttl ==
    /\ pc = "call"
    /\ origin_ttl' = _parse_origin_ttl(cache_control, expires, date_header)
    /\ fallback_entered' =
          FallbackEntered(ParseCacheControl(cache_control), expires, date_header)
    /\ pc' = "return"
    /\ UNCHANGED <<cc_tokens, cache_control, expires, date_header>>
    /\ UNCHANGED <<cacheKeyVars, mainVars, fetchVars, session_info>>
    /\ UNCHANGED scriptVars

SpecOriginTtl == InitOriginTtl /\ [][Call_parse_origin_ttl]_vars

(***************************************************************************)
(* SpecFormat: print_analysis formats one origin TTL, None or a number of  *)
(* seconds: every number up to MaxSmallTtl and the numbers around each     *)
(* threshold and around a multiple of each unit.                           *)
(***************************************************************************)
MaxSmallTtl == 130

InitFormat ==
    /\ pc = "call"
    /\ cc_tokens = <<>>
    /\ cache_control = UNKNOWN
    /\ expires = UNKNOWN
    /\ date_header = UNKNOWN
    /\ fallback_entered = FALSE
    /\ origin_ttl \in
          {NoResult}
              \cup {TtlResult(Some(n), "max-age") :
                      n \in (0 .. MaxSmallTtl)
                          \cup {3540, 3599, 3600, 3601, 7199, 7200, 86399,
                                86400, 86401, 172799, 172800, 31536000}}
    /\ CacheKeyIdle
    /\ MainIdle
    /\ FetchIdle
    /\ origin_ttl_str = <<>>
    /\ args = <<>>
    /\ RICH_AVAILABLE = FALSE
    /\ PullIdle
    /\ CleanupIdle

Call_format_ttl_string ==
    /\ pc = "call"
    /\ origin_ttl_str' = _format_ttl_string(origin_ttl.ttl_seconds)
    /\ pc' = "formatted"
    /\ UNCHANGED <<originVars, cacheKeyVars, mainVars, fetchVars, session_info>>
    /\ UNCHANGED <<args, RICH_AVAILABLE, search_dir, git_dirs, gitdir_index,
                   overall_status, cwd, pulled, platform, disk, temp_file,
                   num_files, yn_response, unlinked>>

SpecFormat == InitFormat /\ [][Call_format_ttl_string]_vars

(***************************************************************************)

(* SpecAkcurl: one run of akcurl's main, from the parsed command line to   *)
(* the exit.  stdout holds one entry for each console_print call and       *)
(* stderr one for each error_print call and each traceback; what           *)
(* verbose_print and setup_printers write is left out.                     *)
(***************************************************************************)
\* the choice of the directives with the catalog added to a given list
GivenPlusCatalog(args_pragma) ==
    IF args_pragma # None /\ args_pragma[1] # <<>>
    THEN args_pragma[1] \o DEFAULT_AKAMAI_PRAGMA_HEADERS
    ELSE DEFAULT_AKAMAI_PRAGMA_HEADERS

\* if args.pragma: pragma_directives_to_use = args.pragma
\* else: pragma_directives_to_use = DEFAULT_AKAMAI_PRAGMA_HEADERS
PragmaDirectivesToUse(args_pragma) ==
    IF args_pragma # None /\ args_pragma[1] # <<>> THEN args_pragma[1]
    ELSE DEFAULT_AKAMAI_PRAGMA_HEADERS

\* whether rich's Text.from_markup(markup) raises MarkupError.  A tag is
\* "[", one of a-z # / @, characters other than "[" and the first "]"; a
\* closing tag with a name needs an open tag of that name, and "[/]" needs
\* an open tag.  Backslash escapes and the normalisation of style names are
\* left out.
MarkupError(markup) ==
    LET TagEnd(i) ==
            LET J == {j \in (i + 2) .. Len(markup) : markup[j] = "]"}
                j == CHOOSE m \in J : \A n \in J : m <= n
            IN  IF /\ i < Len(markup)
                   /\ markup[i] = "["
                   /\ \/ \E k \in 1..26 : ALPHA_LO[k] = markup[i + 1]
                      \/ markup[i + 1] \in {"#", "/", "@"}
                   /\ J # {}
                   /\ \A k \in (i + 2) .. (j - 1) : markup[k] # "["
                THEN j ELSE 0
        RECURSIVE Scan(_, _)
        Scan(i, open) ==
            IF i > Len(markup) THEN FALSE
            ELSE IF TagEnd(i) = 0 THEN Scan(i + 1, open)
            ELSE LET name == SubSeq(markup, i + 1, TagEnd(i) - 1)
                     style_name == Strip(Tail(name))
                     K == {k \in 1..Len(open) : open[k] = style_name}
                     top == CHOOSE m \in K : \A n \in K : m >= n
                 IN  IF name[1] # "/"
                     THEN Scan(TagEnd(i) + 1, Append(open, name))
                     ELSE IF style_name = <<>>
                     THEN open = <<>>
                          \/ Scan(TagEnd(i) + 1, SubSeq(open, 1, Len(open) - 1))
                     ELSE K = {}
                          \/ Scan(TagEnd(i) + 1,
                                  SubSeq(open, 1, top - 1)
                                      \o SubSeq(open, top + 1, Len(open)))
    IN  Scan(1, <<>>)

\* sorted(headers.items(), key=lambda item: item[0].lower()): the keys in
\* the order of their lower-cased names, compared character by character
SortedKeys(headers) ==
    LET Ord(c) ==
            CHOOSE k \in 1..Len(ASCII_PRINTABLE) : ASCII_PRINTABLE[k] = c
        RECURSIVE Less(_, _)
        Less(a, b) ==
            IF b = <<>> THEN FALSE
            ELSE IF a = <<>> THEN TRUE
            ELSE IF a[1] = b[1] THEN Less(Tail(a), Tail(b))
            ELSE Ord(a[1]) < Ord(b[1])
        Rank(k) ==
            Cardinality({o \in DOMAIN headers : Less(Lower(o), Lower(k))}) + 1
    IN  [i \in 1..Cardinality(DOMAIN headers) |->
            CHOOSE k \in DOMAIN headers : Rank(k) = i]

\* the loop over the headers: the console_print calls it makes, and whether
\* it ends in a MarkupError.  A header of HEADERS_TO_SPLIT with a comma is
\* printed as its name and its non-empty parts; with colours each value or
\* part goes through Text.from_markup, wrapped in a style tag and "[/]",
\* before it is printed.  An entry holds the text handed to the call, tags
\* included, and the style tag stands for any of the styles of get_styles.
PrintHeaders(headers, coloured) ==
    LET Wrapped(text) == <<"[", "s", "]", " ">> \o text \o <<"[", "/", "]">>
        Parts(value) ==
            LET raw == Split(value, <<",">>)
            IN  SelectSeq([i \in 1..Len(raw) |-> Strip(raw[i])],
                          LAMBDA part : part # <<>>)
        IsSplit(key) ==
            /\ Lower(key) \in {LowerName.x_akamai_session_info,
                               <<"x", "-", "a", "k", "a", "m", "a", "i",
                                 "-", "a", "2", "-", "t", "r", "a", "c", "e">>,
                               <<"a", "c", "c", "e", "p", "t", "-", "c", "h">>}
            /\ Contains(headers[key], <<",">>)
        Calls(key) ==
            IF IsSplit(key)
            THEN <<[what |-> key, text |-> None, markup |-> <<>>]>>
                 \o [i \in 1..Len(Parts(headers[key])) |->
                        [what |-> key, text |-> Some(Parts(headers[key])[i]),
                         markup |-> Wrapped(Parts(headers[key])[i])]]
            ELSE <<[what |-> key, text |-> Some(headers[key]),
                    markup |-> Wrapped(headers[key])]>>
        RECURSIVE Flat(_)
        Flat(keys) ==
            IF keys = <<>> THEN <<>> ELSE Calls(keys[1]) \o Flat(Tail(keys))
        calls == Flat(SortedKeys(headers))
        Bad == {i \in 1..Len(calls) : coloured /\ MarkupError(calls[i].markup)}
        first == CHOOSE m \in Bad : \A n \in Bad : m <= n
        done == IF Bad = {} THEN calls ELSE SubSeq(calls, 1, first - 1)
    IN  [lines |-> [i \in 1..Len(done) |->
                      Line("header", Some(<<done[i].what, done[i].text>>))],
         raised |-> Bad # {}]

InitAkcurl ==
    /\ pc = "akcurl"
    /\ OriginIdle
    /\ CacheKeyIdle
    /\ MainIdle
    /\ FetchIdle
    /\ origin_ttl_str = <<>>
    /\ args \in
          {[parse |-> p, url |-> <<>>, pragma |-> None, all |-> FALSE,
            verbose |-> FALSE, timeout |-> 10, no_color |-> FALSE] :
              p \in {"help", "error"}}
          \cup {a \in [parse : {"ok"},
                       url : {Url.https, Url.ftp},
                       pragma : {None, Some(<<Sample.directive_x>>),
                                 Some(<<<<>>>>),
                                 Some(<<DEFAULT_AKAMAI_PRAGMA_HEADERS[2],
                                        Sample.directive_x>>),
                                 Some(<<DEFAULT_AKAMAI_PRAGMA_HEADERS[1]>>)},
                       all : BOOLEAN,
                       verbose : BOOLEAN,
                       timeout : {10},
                       no_color : BOOLEAN] : a.all => a.pragma = None}
    /\ RICH_AVAILABLE \in BOOLEAN
    /\ PullIdle
    /\ CleanupIdle

\* the help test on sys.argv, parser.parse_args(), the URL check and the
\* choice of the directives
akcurl_main_args ==
    /\ pc = "akcurl"
    /\ IF args.parse = "help"
       THEN /\ stdout' = Append(stdout, Line("usage:", None))
            /\ exit_code' = Some(0)
            /\ pc' = "exit"
            /\ UNCHANGED <<stderr, main_url, pragma_directives, verbose>>
       ELSE IF args.parse = "error"
       THEN /\ stderr' = Append(stderr, Line("usage: error:", None))
            /\ exit_code' = Some(2)
            /\ pc' = "exit"
            /\ UNCHANGED <<stdout, main_url, pragma_directives, verbose>>
       ELSE IF ~is_valid_url(args.url)
       THEN /\ stderr' = Append(stderr, Line("Error: Invalid URL provided", None))
            /\ exit_code' = Some(1)
            /\ pc' = "exit"
            /\ UNCHANGED <<stdout, main_url, pragma_directives, verbose>>
       ELSE /\ main_url' = args.url
            /\ pragma_directives' = PragmaDirectivesToUse(args.pragma)
            /\ verbose' = args.verbose
            /\ pc' = "akcurl_fetch"
            /\ UNCHANGED <<stdout, stderr, exit_code>>
    /\ UNCHANGED <<argv, gets, outcome, final_status, main_headers,
                   main_analysis_data, report, fetcher, fetch_result>>
    /\ UNCHANGED <<originVars, cacheKeyVars, session_info>>
    /\ UNCHANGED <<origin_ttl_str, args, RICH_AVAILABLE, search_dir, git_dirs,
                   gitdir_index, overall_status, cwd, pulled, platform, disk,
                   temp_file, num_files, yn_response, unlinked>>

\* final_status, headers = fetch_akamai_headers(args.url,
\*     pragma_directives_to_use, args.verbose, args.timeout, args.no_color)
akcurl_main_fetch ==
    /\ pc = "akcurl_fetch"
    /\ \E o \in FetchOutcomes
                \cup {Outcome({}, Some(Response(200, h)), FALSE) :
                        h \in {[n \in {SentName.x_cache_key, SentName.date} |->
                                  IF n = SentName.date THEN Sample.date_noon
                                  ELSE Sample.key_markup],
                               [n \in {SentName.x_akamai_session_info,
                                       SentName.x_cache} |->
                                  IF n = SentName.x_cache
                                  THEN Sample.x_cache_hit
                                  ELSE Sample.session_markup]}} :
          /\ outcome' = o
          /\ gets' = gets \o IssuedGets(GetRequest(main_url,
                                 AkcurlRequestHeaders(pragma_directives),
                                 args.timeout), o)
          /\ final_status' = AkcurlFetchHandlers(o, verbose).final_status
          /\ main_headers' = AkcurlFetchHandlers(o, verbose).headers
          /\ stderr' = stderr \o AkcurlFetchHandlers(o, verbose).errors
    /\ pc' = "akcurl_print"
    /\ UNCHANGED <<argv, main_url, main_analysis_data, report, stdout,
                   exit_code>>
    /\ UNCHANGED <<originVars, cacheKeyVars, fetchVars, session_info>>
    /\ UNCHANGED <<origin_ttl_str, args, RICH_AVAILABLE, search_dir, git_dirs,
                   gitdir_index, overall_status, cwd, pulled, platform, disk,
                   temp_file, num_files, yn_response, unlinked>>

\* the status line, then the headers and sys.exit(0), or
\* error_print("Failed to retrieve headers.") and sys.exit(1)
akcurl_main_print ==
    /\ pc = "akcurl_print"
    /\ LET status_line ==
               IF final_status # None
               THEN <<Line("- Status Code:", final_status)>> ELSE <<>>
           printed ==
               PrintHeaders(main_headers[1],
                            ~args.no_color /\ RICH_AVAILABLE)
       IN  IF main_headers = None
           THEN /\ stdout' = stdout \o status_line
                /\ stderr' = Append(stderr,
                                    Line("Failed to retrieve headers.", None))
                /\ exit_code' = Some(1)
           ELSE /\ stdout' = stdout \o status_line \o printed.lines
                /\ stderr' =
                      IF printed.raised
                      THEN Append(stderr, Line("Traceback: MarkupError", None))
                      ELSE stderr
                /\ exit_code' = Some(IF printed.raised THEN 1 ELSE 0)
    /\ pc' = "exit"
    /\ UNCHANGED <<argv, main_url, gets, outcome, final_status, main_headers,
                   main_analysis_data, report>>
    /\ UNCHANGED <<originVars, cacheKeyVars, fetchVars, session_info>>
    /\ UNCHANGED <<origin_ttl_str, args, RICH_AVAILABLE, search_dir, git_dirs,
                   gitdir_index, overall_status, cwd, pulled, platform, disk,
                   temp_file, num_files, yn_response, unlinked>>

SpecAkcurl ==
    InitAkcurl
        /\ [][akcurl_main_args \/ akcurl_main_fetch \/ akcurl_main_print]_vars

(***************************************************************************)

(* SpecPull: one run of pull.py's pull_repositories.  The file system and  *)
(* git are the environment: whether search_dir is a directory and can be   *)
(* entered, and for each repository os.walk found whether its path starts  *)
(* with base_src_dir, whether it can be entered, and the exit status and   *)
(* the output lines of `git pull --ff-only`, " " for a blank line.         *)
(* os.getcwd() and the os.chdir() back to the directory the run came from  *)
(* succeed.  stderr holds one entry for each print to sys.stderr and each  *)
(* traceback.                                                              *)
(***************************************************************************)
MaxRepos == 3

InitPull ==
    /\ pc = "pull"
    /\ OriginIdle
    /\ CacheKeyIdle
    /\ MainIdle
    /\ FetchIdle
    /\ origin_ttl_str = <<>>
    /\ args = <<>>
    /\ RICH_AVAILABLE = FALSE
    /\ search_dir \in [is_dir : BOOLEAN, chdir_ok : BOOLEAN]
    /\ git_dirs \in
          IF search_dir.is_dir
          THEN BoundedSeq(
                   {[safe |-> FALSE, chdir_ok |-> TRUE, pull_status |-> 0,
                     pull_output |-> <<>>],
                    [safe |-> TRUE, chdir_ok |-> FALSE, pull_status |-> 0,
                     pull_output |-> <<>>]}
                   \cup [safe : {TRUE}, chdir_ok : {TRUE},
                         pull_status : {0},
                         pull_output : {<<>>, <<"Already up to date.">>,
                                        <<"Updating 1a2b..3c4d",
                                          "Fast-forward">>}]
                   \cup [safe : {TRUE}, chdir_ok : {TRUE},
                         pull_status : {1},
                         pull_output : {<<>>, <<" ">>,
                                        <<"fatal: boom", "more">>}],
                   MaxRepos)
          ELSE {<<>>}
    /\ gitdir_index = 0
    /\ overall_status = 0
    /\ cwd = 0
    /\ pulled = <<>>
    /\ CleanupIdle

\* from the isdir test to overall_status = 0
pull_start ==
    /\ pc = "pull"
    /\ IF ~search_dir.is_dir
       THEN /\ stderr' = Append(stderr, Line("Error: Directory not found", None))
            /\ exit_code' = Some(1)
            /\ pc' = "exit"
            /\ UNCHANGED <<gitdir_index, overall_status>>
       ELSE /\ stderr' =
                  stderr \o <<Line("Searching for repositories", None),
                              IF git_dirs = <<>>
                              THEN Line("No Git repositories found", None)
                              ELSE Line("Found repositories", Some(Len(git_dirs)))>>
            /\ overall_status' = 0
            /\ gitdir_index' = 1
            /\ pc' = "pull_loop"
            /\ UNCHANGED exit_code
    /\ UNCHANGED <<argv, main_url, gets, outcome, final_status, main_headers,
                   main_analysis_data, report, stdout>>
    /\ UNCHANGED <<originVars, cacheKeyVars, fetchVars, session_info>>
    /\ UNCHANGED <<origin_ttl_str, args, RICH_AVAILABLE, search_dir, git_dirs,
                   cwd, pulled, platform, disk, temp_file, num_files,
                   yn_response, unlinked>>

\* one pass of `for gitdir in git_dirs`.  After a failed pull with output
\* the first line is printed and the expression `indented` that follows the
\* print call is evaluated: the name is not defined, and the NameError ends
\* the run before the os.chdir back.
pull_repo ==
    /\ pc = "pull_loop"
    /\ gitdir_index <= Len(git_dirs)
    /\ LET repo == git_dirs[gitdir_index]
           NonBlank == {i \in 1..Len(repo.pull_output) :
                          repo.pull_output[i] # " "}
       IN  IF ~repo.safe
           THEN /\ stderr' = Append(stderr,
                       Line("Warning: Skipping potentially unsafe path",
                            Some(gitdir_index)))
                /\ overall_status' = 1
                /\ gitdir_index' = gitdir_index + 1
                /\ UNCHANGED <<cwd, pulled, exit_code, pc>>
           ELSE IF ~repo.chdir_ok
           THEN /\ stderr' = Append(stderr,
                       Line("Error: Could not change directory to",
                            Some(gitdir_index)))
                /\ overall_status' = 1
                /\ gitdir_index' = gitdir_index + 1
                /\ UNCHANGED <<cwd, pulled, exit_code, pc>>
           ELSE /\ pulled' = Append(pulled, gitdir_index)
                /\ IF repo.pull_status = 0
                   THEN /\ stderr' =
                              stderr \o
                                  (IF "Already up to date." \in
                                        {repo.pull_output[i] :
                                            i \in 1..Len(repo.pull_output)}
                                   THEN <<Line("Already up to date.",
                                               Some(gitdir_index))>>
                                   ELSE IF repo.pull_output = <<>>
                                   THEN <<Line("Pulled successfully.",
                                               Some(gitdir_index))>>
                                   ELSE <<Line("Pulled successfully.",
                                               Some(gitdir_index)),
                                          Line("git output",
                                               Some(gitdir_index))>>)
                        /\ cwd' = cwd
                        /\ gitdir_index' = gitdir_index + 1
                        /\ UNCHANGED <<overall_status, exit_code, pc>>
                   ELSE /\ overall_status' = 1
                        /\ IF NonBlank = {}
                           THEN /\ stderr' = Append(stderr,
                                       Line("Pull failed", Some(gitdir_index)))
                                /\ cwd' = cwd
                                /\ gitdir_index' = gitdir_index + 1
                                /\ UNCHANGED <<exit_code, pc>>
                           ELSE /\ stderr' =
                                      stderr \o <<Line("Pull failed",
                                                       Some(gitdir_index)),
                                                  Line("git output line",
                                                       Some(gitdir_index)),
                                                  Line("Traceback: NameError",
                                                       None)>>
                                /\ cwd' = gitdir_index
                                /\ exit_code' = Some(1)
                                /\ pc' = "exit"
                                /\ UNCHANGED gitdir_index
    /\ UNCHANGED <<argv, main_url, gets, outcome, final_status, main_headers,
                   main_analysis_data, report, stdout>>
    /\ UNCHANGED <<originVars, cacheKeyVars, fetchVars, session_info>>
    /\ UNCHANGED <<origin_ttl_str, args, RICH_AVAILABLE, search_dir, git_dirs,
                   platform, disk, temp_file, num_files, yn_response,
                   unlinked>>

\* the end of a run that prints search_dir whatever happened
FinishPrintsAlways ==
    /\ pc = "pull_loop"
    /\ gitdir_index > Len(git_dirs)
    /\ stderr' = Append(stderr, Line("Finished processing repositories", None))
    /\ cwd' = IF search_dir.chdir_ok THEN -1 ELSE cwd
    /\ overall_status' = IF search_dir.chdir_ok THEN overall_status ELSE 1
    /\ stdout' = Append(stdout, Line("search_dir", None))
    /\ exit_code' = Some(overall_status')
    /\ pc' = "exit"
    /\ UNCHANGED <<argv, main_url, gets, outcome, final_status, main_headers,
                   main_analysis_data, report>>
    /\ UNCHANGED <<originVars, cacheKeyVars, fetchVars, session_info>>
    /\ UNCHANGED <<origin_ttl_str, args, RICH_AVAILABLE, search_dir, git_dirs,
                   gitdir_index, pulled, platform, disk, temp_file, num_files,
                   yn_response, unlinked>>

\* after the loop: the os.chdir to search_dir, the print to stdout and
\* sys.exit(overall_status)
pull_finish ==
    /\ pc = "pull_loop"
    /\ gitdir_index > Len(git_dirs)
    /\ stderr' =
          stderr \o <<Line("Finished processing repositories", None)>>
              \o (IF search_dir.chdir_ok THEN <<>>
                  ELSE <<Line("Error: Could not change script's internal CWD",
                              None)>>)
    /\ cwd' = IF search_dir.chdir_ok THEN -1 ELSE cwd
    /\ overall_status' = IF search_dir.chdir_ok THEN overall_status ELSE 1
    /\ stdout' =
          IF overall_status = 0 /\ search_dir.chdir_ok
          THEN Append(stdout, Line("search_dir", None)) ELSE stdout
    /\ exit_code' = Some(overall_status')
    /\ pc' = "exit"
    /\ UNCHANGED <<argv, main_url, gets, outcome, final_status, main_headers,
                   main_analysis_data, report>>
    /\ UNCHANGED <<originVars, cacheKeyVars, fetchVars, session_info>>
    /\ UNCHANGED <<origin_ttl_str, args, RICH_AVAILABLE, search_dir, git_dirs,
                   gitdir_index, pulled, platform, disk, temp_file, num_files,
                   yn_response, unlinked>>

SpecPull == InitPull /\ [][pull_start \/ pull_repo \/ pull_finish]_vars

(***************************************************************************)

(* SpecCleanup: one run of cleanup.py.  disk holds the kind of each path   *)
(* under the directory that matches the regex, in the order find visits    *)
(* them: a file, a file that cannot be unlinked, or a directory; a path is *)
(* named by its position.  Opening, reading and removing TEMP_FILE         *)
(* succeed.  stderr holds what the run logs, one entry for each message    *)
(* and each traceback.                                                     *)
(***************************************************************************)
MaxPaths == 3

AnyAnswerIsYes(response) == TRUE

\* prompt_yn: the validator lets through y and n in either case, and
\* response.lower() == "y" is the answer yes
prompt_yn(response) == response \in {"y", "Y"}

InitCleanup ==
    /\ pc = "cleanup"
    /\ OriginIdle
    /\ CacheKeyIdle
    /\ MainIdle
    /\ FetchIdle
    /\ origin_ttl_str = <<>>
    /\ args = <<>>
    /\ RICH_AVAILABLE = FALSE
    /\ PullIdle
    /\ platform \in {"linux", "darwin", "freebsd", "win32"}
    /\ disk \in BoundedSeq({"file", "locked", "dir"}, MaxPaths)
    /\ temp_file \in {None, Some(<<>>)}
    /\ num_files = 0
    /\ yn_response = ""
    /\ unlinked = <<>>

\* check_directory_arg, find_files, count_files and display_box.  On linux
\* the find command has no `-type f` and lists directories as well; on a
\* platform that is none of linux, freebsd and darwin agnostic_find is never
\* assigned, and find_files exits on the NameError after it has created the
\* file.
cleanup_find ==
    /\ pc = "cleanup"
    /\ LET listing ==
               SelectSeq([k \in 1..Len(disk) |-> k],
                         LAMBDA k : platform = "linux" \/ disk[k] # "dir")
       IN  IF platform \notin {"linux", "darwin", "freebsd"}
           THEN /\ temp_file' = Some(<<>>)
                /\ stderr' = Append(stderr, Line("Failed to find files", None))
                /\ exit_code' = Some(1)
                /\ pc' = "exit"
                /\ UNCHANGED num_files
           ELSE /\ temp_file' = Some(listing)
                /\ num_files' = Len(listing)
                /\ stderr' =
                      Append(stderr,
                             IF listing # <<>>
                             THEN Line("files to be removed:", Some(Len(listing)))
                             ELSE Line("No files found to remove.", None))
                /\ pc' = IF listing # <<>> THEN "prompt_yn" ELSE "clean_up"
                /\ UNCHANGED exit_code
    /\ UNCHANGED <<argv, main_url, gets, outcome, final_status, main_headers,
                   main_analysis_data, report, stdout>>
    /\ UNCHANGED <<originVars, cacheKeyVars, fetchVars, session_info>>
    /\ UNCHANGED <<origin_ttl_str, args, RICH_AVAILABLE, search_dir, git_dirs,
                   gitdir_index, overall_status, cwd, pulled, platform, disk,
                   yn_response, unlinked>>

\* if prompt_yn("Are you sure you want to delete these files?"): the user
\* answers, or ends the input and the EOFError ends the run
cleanup_prompt ==
    /\ pc = "prompt_yn"
    /\ \E response \in {"y", "Y", "n", "N", "EOF"} :
          /\ yn_response' = response
          /\ IF response = "EOF"
             THEN /\ stderr' = Append(stderr, Line("Traceback: EOFError", None))
                  /\ exit_code' = Some(1)
                  /\ pc' = "exit"
             ELSE IF prompt_yn(response)
             THEN /\ pc' = "remove_files"
                  /\ UNCHANGED <<stderr, exit_code>>
             ELSE /\ stderr' = Append(stderr, Line("Cleanup aborted.", None))
                  /\ pc' = "clean_up"
                  /\ UNCHANGED exit_code
    /\ UNCHANGED <<argv, main_url, gets, outcome, final_status, main_headers,
                   main_analysis_data, report, stdout>>
    /\ UNCHANGED <<originVars, cacheKeyVars, fetchVars, session_info>>
    /\ UNCHANGED <<origin_ttl_str, args, RICH_AVAILABLE, search_dir, git_dirs,
                   gitdir_index, overall_status, cwd, pulled, platform, disk,
                   temp_file, num_files, unlinked>>

\* remove_files() and print_success: the lines of TEMP_FILE are unlinked in
\* their order; Path.unlink raises on a directory and on a file that cannot
\* be unlinked, and the handler exits with status 1
remove_files ==
    /\ pc = "remove_files"
    /\ LET lines == temp_file[1]
           Fails == {i \in 1..Len(lines) : disk[lines[i]] # "file"}
           first == CHOOSE m \in Fails : \A n \in Fails : m <= n
           done == IF Fails = {} THEN lines ELSE SubSeq(lines, 1, first - 1)
       IN  /\ unlinked' = unlinked \o done
           /\ IF Fails = {}
              THEN /\ stderr' =
                         stderr \o [i \in 1..Len(lines) |->
                                       Line("warning", Some(lines[i]))]
                                \o <<Line("Cleanup complete.", None)>>
                   /\ pc' = "clean_up"
                   /\ UNCHANGED exit_code
              ELSE /\ stderr' =
                         stderr \o [i \in 1..first |->
                                       Line("warning", Some(lines[i]))]
                                \o <<Line("Failed to remove files", None)>>
                   /\ exit_code' = Some(1)
                   /\ pc' = "exit"
    /\ UNCHANGED <<argv, main_url, gets, outcome, final_status, main_headers,
                   main_analysis_data, report, stdout>>
    /\ UNCHANGED <<originVars, cacheKeyVars, fetchVars, session_info>>
    /\ UNCHANGED <<origin_ttl_str, args, RICH_AVAILABLE, search_dir, git_dirs,
                   gitdir_index, overall_status, cwd, pulled, platform, disk,
                   temp_file, num_files, yn_response>>

\* clean_up(), and the end of the script
clean_up ==
    /\ pc = "clean_up"
    /\ temp_file' = None
    /\ exit_code' = Some(0)
    /\ pc' = "exit"
    /\ UNCHANGED <<argv, main_url, gets, outcome, final_status, main_headers,
                   main_analysis_data, report, stdout, stderr>>
    /\ UNCHANGED <<originVars, cacheKeyVars, fetchVars, session_info>>
    /\ UNCHANGED <<origin_ttl_str, args, RICH_AVAILABLE, search_dir, git_dirs,
                   gitdir_index, overall_status, cwd, pulled, platform, disk,
                   num_files, yn_response, unlinked>>

SpecCleanup ==
    InitCleanup
        /\ [][cleanup_find \/ cleanup_prompt \/ remove_files \/ clean_up]_vars

(***************************************************************************)

(* What the origin wrote, read off the directive list and not the text.    *)
(***************************************************************************)
IsSMaxAge(d) == Lower(d.name) = Sample.s_maxage /\ d.arg # None
IsMaxAge(d) == Lower(d.name) = Sample.max_age /\ d.arg # None
IsNoCache(d) == Lower(d.name) \in {NO_CACHE, NO_STORE, PRIVATE}

HasSMaxAge == \E i \in 1..Len(cc_tokens) : IsSMaxAge(cc_tokens[i])
HasMaxAge == \E i \in 1..Len(cc_tokens) : IsMaxAge(cc_tokens[i])
HasNoCache == \E i \in 1..Len(cc_tokens) : IsNoCache(cc_tokens[i])

FirstSMaxAge ==
    LET I == {i \in 1..Len(cc_tokens) : IsSMaxAge(cc_tokens[i])}
    IN  cc_tokens[CHOOSE i \in I : \A j \in I : i <= j].arg[1]
FirstMaxAge ==
    LET I == {i \in 1..Len(cc_tokens) : IsMaxAge(cc_tokens[i])}
    IN  cc_tokens[CHOOSE i \in I : \A j \in I : i <= j].arg[1]

\* the TTL and the directive name of the Cache-Control-based choice
ChosenTtl == IF HasSMaxAge THEN FirstSMaxAge ELSE FirstMaxAge
ChosenName == IF HasSMaxAge THEN "s-maxage" ELSE "max-age"

Returned == pc = "return"

\* C1: with s-maxage=<N> and none of no-cache/no-store/private the result
\* is (N, "s-maxage"); with max-age=<M> and no s-maxage it is
\* (M, "max-age"); whatever Expires and Date are.
C1_Precedence ==
    (Returned /\ ~HasNoCache) =>
        /\ HasSMaxAge => origin_ttl = TtlResult(Some(FirstSMaxAge), "s-maxage")
        /\ (HasMaxAge /\ ~HasSMaxAge) =>
               origin_ttl = TtlResult(Some(FirstMaxAge), "max-age")

C1_Witness ==
    /\ Returned
    /\ cc_tokens = <<Directive(Sample.s_maxage, Some(60)), Directive(Sample.max_age, Some(30))>>
    /\ expires = Sample.date_1pm
    /\ date_header = Sample.date_noon
    /\ origin_ttl = TtlResult(Some(60), "s-maxage")

\* C2: without Cache-Control and with two parseable dates the result is
\* (Expires - Date, "Expires header") if Expires > Date and
\* (0, "Expires header (past date)") otherwise.
C2_ExpiresFallback ==
    (/\ Returned
     /\ cache_control = UNKNOWN
     /\ parsedate_to_datetime(expires) # None
     /\ parsedate_to_datetime(date_header) # None) =>
        LET e == parsedate_to_datetime(expires)[1]
            d == parsedate_to_datetime(date_header)[1]
        IN  IF e > d
            THEN origin_ttl = TtlResult(Some(e - d), "Expires header")
            ELSE origin_ttl = TtlResult(Some(0), "Expires header (past date)")

\* C3: a chosen s-maxage/max-age TTL together with no-cache, no-store or
\* private gives TTL 0; the source is "<name> (overridden by
\* no-cache/private)" if the chosen TTL was positive, else "no-cache/private".
C3_Override ==
    (Returned /\ (HasSMaxAge \/ HasMaxAge) /\ HasNoCache) =>
        origin_ttl =
            TtlResult(Some(0),
                      IF ChosenTtl > 0
                      THEN ChosenName \o " (overridden by no-cache/private)"
                      ELSE "no-cache/private")

C3_Witness ==
    /\ Returned
    /\ cc_tokens = <<Directive(Sample.s_maxage, Some(60)), Directive(PRIVATE, None)>>
    /\ origin_ttl = TtlResult(Some(0), "s-maxage (overridden by no-cache/private)")

MAXAGE_120_NO_CACHE ==
    <<"m", "a", "x", "-", "a", "g", "e", "=", "1", "2", "0", ",", " ",
      "n", "o", "-", "c", "a", "c", "h", "e">>

\* C4 as stated: `Cache-Control: max-age=120, no-cache` gives TTL 0 with
\* the source "no-cache/private".
C4_Original ==
    (Returned /\ cache_control = MAXAGE_120_NO_CACHE) =>
        origin_ttl = TtlResult(Some(0), "no-cache/private")

\* C4 (amended): `Cache-Control: max-age=120, no-cache` gives TTL 0 with
\* the source "max-age (overridden by no-cache/private)".
C4_Amended ==
    (Returned /\ cache_control = MAXAGE_120_NO_CACHE) =>
        origin_ttl =
            TtlResult(Some(0), "max-age (overridden by no-cache/private)")

C4_Witness ==
    /\ Returned
    /\ cache_control = MAXAGE_120_NO_CACHE
    /\ origin_ttl.ttl_seconds = Some(0)

\* C5 as stated: without s-maxage and max-age, no-cache/no-store/private do
\* not set the TTL: the Expires/Date block runs whenever both headers are
\* there, and the result is unknown when it does not run.
C5_Original ==
    (Returned /\ cache_control # UNKNOWN /\ ~HasSMaxAge /\ ~HasMaxAge) =>
        /\ fallback_entered = (expires # UNKNOWN /\ date_header # UNKNOWN)
        /\ ~fallback_entered => origin_ttl = TtlResult(None, "unknown")

\* C5 (amended): the override needs no chosen TTL.  Without s-maxage and
\* max-age, any of no-cache/no-store/private gives (0, "no-cache/private")
\* and the Expires/Date block does not run; the block runs, when both
\* headers are there, only if none of the three is present.
C5_Amended ==
    (Returned /\ cache_control # UNKNOWN /\ ~HasSMaxAge /\ ~HasMaxAge) =>
        /\ HasNoCache =>
              /\ origin_ttl = TtlResult(Some(0), "no-cache/private")
              /\ ~fallback_entered
        /\ ~HasNoCache =>
              fallback_entered = (expires # UNKNOWN /\ date_header # UNKNOWN)

C5_Witness ==
    /\ Returned
    /\ cc_tokens = <<Directive(NO_STORE, None)>>
    /\ expires = Sample.date_1pm
    /\ date_header = Sample.date_noon
    /\ origin_ttl = TtlResult(Some(0), "no-cache/private")
    /\ ~fallback_entered

Unparseable(v) == v = UNKNOWN \/ parsedate_to_datetime(v) = None

KeySegments == {<<>>, <<"S">>, <<"L">>, <<"1", "d">>, <<"x">>}

CacheKeys ==
    {Join(<<"/">>, segs) : segs \in BoundedSeq(KeySegments, MaxKeySegs)}
        \cup {UNKNOWN, NA, Sample.example_key}

InitCacheKey ==
    /\ pc = "call"
    /\ OriginIdle
    /\ MainIdle
    /\ FetchIdle
    /\ cache_key \in CacheKeys
    /\ cache_key_ttl = None
    /\ origin_ttl_str = <<>>
    /\ args = <<>>
    /\ RICH_AVAILABLE = FALSE
    /\ PullIdle
    /\ CleanupIdle

Call_parse_cache_key_ttl ==
    /\ pc = "call"
    /\ cache_key_ttl' = _parse_cache_key_ttl(cache_key)
    /\ pc' = "return"
    /\ UNCHANGED cache_key
    /\ UNCHANGED <<originVars, mainVars, fetchVars, session_info>>
    /\ UNCHANGED scriptVars

SpecCacheKey == InitCacheKey /\ [][Call_parse_cache_key_ttl]_vars

\* the segments of a key: key.split("/")
RECURSIVE SplitSlash(_)
SplitSlash(s) ==
    IF \A k \in 1..Len(s) : s[k] # "/" THEN <<s>>
    ELSE LET i == CHOOSE m \in 1..Len(s) :
                      s[m] = "/" /\ \A n \in 1..(m - 1) : s[n] # "/"
         IN  <<SubSeq(s, 1, i - 1)>> \o SplitSlash(SubSeq(s, i + 1, Len(s)))

\* the positions of an L segment that a slash precedes, two non-empty
\* segments follow, and then a non-empty segment that a slash ends
MarkerPositions(segs) ==
    {k \in 2..(Len(segs) - 4) :
        /\ segs[k] = <<"L">>
        /\ segs[k + 1] # <<>>
        /\ segs[k + 2] # <<>>
        /\ segs[k + 3] # <<>>}

\* C7: the result is the segment after the L marker and two opaque
\* segments (an S segment before the marker changes nothing), and None for
\* an absent/unknown key and for a key without such a marker; no call raises.
C7_CacheKeyTtl ==
    Returned =>
        LET segs == SplitSlash(cache_key)
            K == MarkerPositions(segs)
        IN  IF cache_key \in {<<>>, UNKNOWN} \/ K = {}
            THEN cache_key_ttl = None
            ELSE cache_key_ttl =
                     Some(segs[(CHOOSE k \in K : \A n \in K : k <= n) + 3])

C7_Witness ==
    /\ Returned
    /\ cache_key = Sample.example_key
    /\ cache_key_ttl = Some(<<"1", "d">>)

(***************************************************************************)
(* The "Cache TTL" line of a run of main.                                  *)
(***************************************************************************)
Exited == pc = "exit"

\* the value of a response header by the name the server sent, None for a
\* header the response does not carry
Sent(name) ==
    IF name \in DOMAIN main_headers[1] THEN Some(main_headers[1][name])
    ELSE None

\* the TTL token of a cache key header, None when the header is absent or
\* its value has no L marker followed by three segments
TokenOf(key) ==
    IF key = None THEN None
    ELSE LET segs == SplitSlash(key[1])
             K == MarkerPositions(segs)
         IN  IF K = {} THEN None
             ELSE Some(segs[(CHOOSE k \in K : \A n \in K : k <= n) + 3])

\* a header value as the Origin TTL Resolver gets it
ResolverArg(value) ==
    IF value = None \/ value = Some(<<>>) \/ value = Some(NA) THEN UNKNOWN
    ELSE value[1]

OriginOfRun ==
    _parse_origin_ttl(ResolverArg(Sent(SentName.cache_control)),
                      ResolverArg(Sent(SentName.expires)),
                      ResolverArg(Sent(SentName.date)))

\* C8: the reported cache TTL is the token of X-Cache-Key when it has one,
\* else the token of X-True-Cache-Key when it has one, whatever Cache-Control
\* and Expires say; else the origin resolver's TTL labelled with its source;
\* else Unknown.
C8_TtlOrder ==
    (Exited /\ report # None) =>
        LET line == report[1].cache_ttl
            first == TokenOf(Sent(SentName.x_cache_key))
            second == TokenOf(Sent(SentName.x_true_cache_key))
        IN  IF first # None
            THEN line.value = first[1] /\ line.according_to = "Akamai's Cache Key"
            ELSE IF second # None
            THEN line.value = second[1]
                 /\ line.according_to = "Akamai's Cache Key"
            ELSE IF OriginOfRun.ttl_seconds # None
            THEN /\ line.value = _format_ttl_string(OriginOfRun.ttl_seconds)
                 /\ line.according_to = "origin"
                 /\ line.origin_source = OriginOfRun.source
            ELSE line.value = TtlText.unknown /\ line.according_to = ""

\* both keys carry a token and Cache-Control carries a TTL of its own
C8_Witness ==
    /\ Exited
    /\ report # None
    /\ Sent(SentName.x_cache_key) = Some(Sample.key_1d)
    /\ Sent(SentName.x_true_cache_key) = Some(Sample.key_30s)
    /\ Sent(SentName.cache_control) = Some(Sample.max_age_30)
    /\ report[1].cache_ttl.value = <<"1", "d">>

(***************************************************************************)
(* The request a fetch function sends.                                     *)
(***************************************************************************)
\* where the k-th directive starts in the joined value
RECURSIVE StartOf(_, _)
StartOf(D, k) == IF k = 1 THEN 1 ELSE StartOf(D, k - 1) + Len(D[k - 1]) + 1

\* value is the elements of D in their order with one comma between
\* neighbours
JoinedInOrder(value, D) ==
    /\ Len(value) = StartOf(D, Len(D)) + Len(D[Len(D)]) - 1
    /\ \A k \in 1..Len(D) :
          /\ SubSeq(value, StartOf(D, k), StartOf(D, k) + Len(D[k]) - 1) = D[k]
          /\ k > 1 => value[StartOf(D, k) - 1] = ","

\* the directive list a fetch function works with: fetch_akamai_headers'
\* argument, the catalog in fetch_headers_for_analysis
DirectivesOfCall ==
    IF fetcher = "fetch_akamai_headers" THEN pragma_directives
    ELSE DEFAULT_AKAMAI_PRAGMA_HEADERS

\* C9: the one request of a fetch carries a Pragma header whose value is the
\* directives joined with "," in their order when the list is non-empty, and
\* no Pragma header when the list is empty.
C9_PragmaHeader ==
    Returned =>
        /\ Len(gets) = 1
        /\ IF DirectivesOfCall = <<>>
           THEN PRAGMA \notin DOMAIN gets[1].headers
           ELSE /\ PRAGMA \in DOMAIN gets[1].headers
                /\ JoinedInOrder(gets[1].headers[PRAGMA], DirectivesOfCall)

C9_Witness ==
    /\ Returned
    /\ fetcher = "fetch_akamai_headers"
    /\ pragma_directives = <<Sample.directive_x, DEFAULT_AKAMAI_PRAGMA_HEADERS[1]>>
    /\ PRAGMA \in DOMAIN gets[1].headers
    /\ gets[1].headers[PRAGMA][2] = ","

(***************************************************************************)
(* A response with an error status.                                        *)
(***************************************************************************)
\* the record of a header map, field by field from the headers the sample
\* responses carry
FieldOf(value) == IF value = None THEN NA ELSE value[1]

\* C10: when the response has a status >= 400, the fetch returns the status
\* and the response's header map, the extractor runs on that map, and the
\* record is the record of that map: no field is unknown because of the
\* status.
C10_ErrorStatusAnalysed ==
    (Exited /\ outcome.exception = {} /\ outcome.response # None
        /\ outcome.response[1].status_code >= 400) =>
        /\ final_status = Some(outcome.response[1].status_code)
        /\ main_headers = Some(outcome.response[1].headers)
        /\ main_analysis_data # None
        /\ main_analysis_data[1] =
               extract_analysis_data(outcome.response[1].headers)
        /\ main_analysis_data[1].cache_key = FieldOf(Sent(SentName.x_cache_key))
        /\ main_analysis_data[1].true_cache_key =
               FieldOf(Sent(SentName.x_true_cache_key))
        /\ main_analysis_data[1].cache_control =
               FieldOf(Sent(SentName.cache_control))
        /\ main_analysis_data[1].expires = FieldOf(Sent(SentName.expires))
        /\ main_analysis_data[1].date = FieldOf(Sent(SentName.date))
        /\ main_analysis_data[1].cache_status_raw =
               FieldOf(Sent(SentName.x_cache))
        /\ report # None

C10_Witness ==
    /\ Exited
    /\ outcome.exception = {}
    /\ final_status = Some(404)
    /\ Sent(SentName.x_cache_key) = Some(Sample.key_1d)
    /\ Sent(SentName.x_cache) = Some(Sample.x_cache_hit)
    /\ main_analysis_data # None
    /\ main_analysis_data[1].cache_key = Sample.key_1d
    /\ main_analysis_data[1].cache_status = <<"T", "C", "P", "_", "H", "I", "T">>
    /\ exit_code = Some(1)

(***************************************************************************)
(* Failures of the fetch.                                                  *)
(***************************************************************************)
\* the messages written through error_print so far
ErrorTags == {stderr[k].what : k \in 1..Len(stderr)}

\* C11: when requests.get times out, the fetch returns no status and no
\* headers and reports the timeout, main never reaches the extractor or the
\* report, and the run exits with status 1 with no analysis record.
C11_TimeoutTerminal ==
    ("Timeout" \in outcome.exception) =>
        /\ final_status = None
        /\ main_headers = None
        /\ main_analysis_data = None
        /\ report = None
        /\ stdout = <<>>
        /\ stderr[1] = Line("Error: Request timed out", None)
        /\ pc # "analyse"
        /\ Exited => exit_code = Some(1)

C11_Witness ==
    /\ Exited
    /\ outcome.exception = exceptions.ConnectTimeout
    /\ ErrorTags = {"Error: Request timed out",
                    "Could not get headers from the website."}
    /\ exit_code = Some(1)

\* C12: a timeout (connect timeouts included), a TLS failure, a connection
\* failure and a response with status >= 400 end in four different outcomes;
\* a TLS failure or a connect timeout is not reported as a connection
\* failure; of the four only the response with status >= 400 returns headers.
C12_Classification ==
    Returned =>
        LET exc == outcome.exception
        IN  /\ "Timeout" \in exc =>
                  /\ ErrorTags = {"Error: Request timed out"}
                  /\ fetch_result = NoFetchResult
            /\ ("SSLError" \in exc /\ "Timeout" \notin exc) =>
                  /\ ErrorTags = {"Error: SSL certificate verification failed"}
                  /\ fetch_result = NoFetchResult
            /\ ("ConnectionError" \in exc /\ "SSLError" \notin exc
                  /\ "Timeout" \notin exc) =>
                  /\ ErrorTags # {}
                  /\ ErrorTags \subseteq
                         {"Error: Could not connect to the server",
                          "Error: Connection aborted"}
                  /\ fetch_result = NoFetchResult
            /\ (exc = {} /\ outcome.response[1].status_code >= 400) =>
                  /\ fetch_result =
                         [final_status |-> Some(outcome.response[1].status_code),
                          headers |-> Some(outcome.response[1].headers)]
                  /\ ErrorTags \subseteq {"Error: HTTP"}
                  /\ (fetcher = "fetch_akamai_headers" /\ ~verbose) =>
                         ErrorTags = {"Error: HTTP"}

C12_Witness ==
    /\ Returned
    /\ fetcher = "fetch_headers_for_analysis"
    /\ outcome.exception = exceptions.SSLError
    /\ ErrorTags = {"Error: SSL certificate verification failed"}
    /\ fetch_result.headers = None

\* C13: a call of a fetch function has issued no GET before it returns and
\* exactly one GET when it has returned, whatever requests.get did.
C13_NoRetry == Len(gets) = IF Returned THEN 1 ELSE 0

C13_Witness ==
    /\ Returned
    /\ "Timeout" \in outcome.exception
    /\ Len(gets) = 1
    /\ fetch_result = NoFetchResult

(***************************************************************************)
(* The URL argument.                                                       *)
(***************************************************************************)
\* u starts with http:// or https:// in any letter case, and a host
\* character follows
HasHttpSchemeAndHost(u) ==
    \E n \in {4, 5} :
        /\ Len(u) > n + 3
        /\ \A k \in 1..n :
              u[k] \in {<<"h", "t", "t", "p", "s">>[k],
                        <<"H", "T", "T", "P", "S">>[k]}
        /\ SubSeq(u, n + 1, n + 3) = <<":", "/", "/">>
        /\ u[n + 4] \notin {"/", "?", "#"}

\* C14: a run whose URL argument has no http/https scheme or no host never
\* issues a request; it ends with the invalid-URL error and exit status 1.
C14_ValidationFirst ==
    (main_url # <<>> /\ ~HasHttpSchemeAndHost(main_url)) =>
        /\ gets = <<>>
        /\ outcome = NoOutcome
        /\ pc \in {"validate", "exit"}
        /\ Exited =>
              /\ exit_code = Some(1)
              /\ stderr = <<Line("Error: Invalid URL provided", None)>>

C14_Witness ==
    /\ Exited
    /\ main_url = Url.ftp
    /\ gets = <<>>
    /\ exit_code = Some(1)

(***************************************************************************)
(* The record of a header map.                                             *)
(***************************************************************************)
\* the value the header map carries under a name, in any letter case, None
\* when it carries none
Carried(lower_name) ==
    IF \E k \in DOMAIN main_headers[1] : Lower(k) = lower_name
    THEN Some(main_headers[1][CHOOSE k \in DOMAIN main_headers[1] :
                                  Lower(k) = lower_name])
    ELSE None

\* the fields read from one header each, with the header
DirectFields ==
    [cache_status_raw |-> LowerName.x_cache,
     cache_status |-> LowerName.x_cache,
     cache_server_hostname |-> LowerName.x_cache,
     cacheability |-> LowerName.x_check_cacheable,
     cache_key |-> LowerName.x_cache_key,
     true_cache_key |-> LowerName.x_true_cache_key,
     edge_server |-> LowerName.x_cache_server,
     serial |-> LowerName.x_serial,
     request_id |-> LowerName.x_akamai_request_id,
     client_ip |-> LowerName.x_akamai_pragma_client_ip,
     origin_server |-> LowerName.x_origin_server,
     midmile_rtt |-> LowerName.x_edgeconnect_midmile_rtt,
     origin_latency |-> LowerName.x_edgeconnect_origin_mex_latency,
     date |-> LowerName.date,
     content_type |-> LowerName.content_type,
     content_length |-> LowerName.content_length,
     last_modified |-> LowerName.last_modified,
     etag |-> LowerName.etag,
     expires |-> LowerName.expires,
     cache_control |-> LowerName.cache_control,
     vary |-> LowerName.vary]

\* the fields read from the session info
SessionFields ==
    {"property_name", "property_version", "fwd_url", "sr_enabled",
     "td_enabled", "client_city", "client_country"}

\* C15 as stated: the record has every field the AnalysisRecord names, the
\* three TTL fields included, and every field, akamai_network included,
\* holds the N/A sentinel when its header is absent.
C15_Original ==
    Returned =>
        LET r == main_analysis_data[1]
        IN  /\ main_analysis_data # None
            /\ DOMAIN DirectFields \cup SessionFields
                   \cup {"akamai_network", "origin_ttl_seconds",
                         "origin_ttl_source", "cache_key_ttl"}
                   \subseteq DOMAIN r
            /\ \A f \in DOMAIN DirectFields :
                  Carried(DirectFields[f]) = None => r[f] = NA
            /\ Carried(LowerName.x_akamai_session_info) = None =>
                  \A f \in SessionFields : r[f] = NA
            /\ Carried(LowerName.x_akamai_staging) = None =>
                  r.akamai_network = NA

\* C15: on every header map extract_analysis_data returns a record with the
\* same 29 fields, none of them a TTL field; a field read from a header
\* holds the N/A sentinel when the header is absent, the session fields hold
\* it when X-Akamai-Session-Info is absent, and akamai_network, which has a
\* rule of its own, is never null and never the sentinel.
C15_Amended ==
    Returned =>
        LET r == main_analysis_data[1]
        IN  /\ main_analysis_data # None
            /\ DOMAIN r =
                   DOMAIN DirectFields \cup SessionFields \cup {"akamai_network"}
            /\ \A f \in DOMAIN DirectFields :
                  Carried(DirectFields[f]) = None => r[f] = NA
            /\ Carried(LowerName.x_akamai_session_info) = None =>
                  \A f \in SessionFields : r[f] = NA
            /\ r.akamai_network \notin {None, NA}

\* only X-Cache is there, with an empty value
C15_Witness ==
    /\ Returned
    /\ DOMAIN main_headers[1] = {SentName.x_cache}
    /\ main_headers[1][SentName.x_cache] = <<>>
    /\ main_analysis_data[1].cache_status = <<>>
    /\ main_analysis_data[1].cache_key = NA
    /\ main_analysis_data[1].property_name = NA

\* p occurs in s
Occurs(p, s) ==
    \E i \in 1..(Len(s) - Len(p) + 1) : SubSeq(s, i, i + Len(p) - 1) = p

\* the text of s before its first character of the set stops
UpTo(s, stops) ==
    LET E == {k \in 1..Len(s) : s[k] \in stops}
    IN  IF E = {} THEN s
        ELSE SubSeq(s, 1, (CHOOSE m \in E : \A n \in E : m <= n) - 1)

\* the text of s after the first occurrence of p
After(s, p) ==
    LET E == {i \in 1..(Len(s) - Len(p) + 1) : SubSeq(s, i, i + Len(p) - 1) = p}
    IN  SubSeq(s, (CHOOSE m \in E : \A n \in E : m <= n) + Len(p), Len(s))

\* the first whitespace-delimited token of s, empty when s has none
FirstToken(s) ==
    LET W == {" ", "\t"}
        B == {k \in 1..Len(s) : s[k] \notin W}
    IN  IF B = {} THEN <<>>
        ELSE UpTo(SubSeq(s, CHOOSE m \in B : \A n \in B : m <= n, Len(s)), W)

\* C16 as stated: cache_status is the first whitespace-delimited token of
\* X-Cache and cache_server_hostname the token after the first " from ".
C16_Original ==
    Returned =>
        LET r == main_analysis_data[1]
            x == Carried(LowerName.x_cache)
        IN  IF x = None THEN r.cache_status = NA /\ r.cache_server_hostname = NA
            ELSE /\ r.cache_status = FirstToken(x[1])
                 /\ r.cache_server_hostname =
                        IF Occurs(<<" ", "f", "r", "o", "m", " ">>, x[1])
                        THEN FirstToken(After(x[1],
                                 <<" ", "f", "r", "o", "m", " ">>))
                        ELSE NA

\* C16: cache_status is the text of X-Cache before its first space and
\* cache_server_hostname the text between the first " from " and the next
\* space (either may be empty; a tab does not delimit); without " from " the
\* hostname is N/A, and without X-Cache both are N/A.
C16_Amended ==
    Returned =>
        LET r == main_analysis_data[1]
            x == Carried(LowerName.x_cache)
        IN  IF x = None THEN r.cache_status = NA /\ r.cache_server_hostname = NA
            ELSE /\ r.cache_status = UpTo(x[1], {" "})
                 /\ r.cache_server_hostname =
                        IF Occurs(<<" ", "f", "r", "o", "m", " ">>, x[1])
                        THEN UpTo(After(x[1], <<" ", "f", "r", "o", "m", " ">>),
                                  {" "})
                        ELSE NA

C16_Witness ==
    /\ Returned
    /\ Carried(LowerName.x_cache) = Some(Sample.x_cache_hit)
    /\ main_analysis_data[1].cache_status = <<"T", "C", "P", "_", "H", "I", "T">>
    /\ main_analysis_data[1].cache_server_hostname =
           <<"e", "d", "g", "e", "1", "2", "3", ".", "a", "k", "a", "m", "a",
             "i", ".", "n", "e", "t">>

(***************************************************************************)
(* The session info of a header map.                                       *)
(***************************************************************************)
\* the comma-separated segments of a value
RECURSIVE SplitComma(_)
SplitComma(s) ==
    IF \A k \in 1..Len(s) : s[k] # "," THEN <<s>>
    ELSE <<UpTo(s, {","})>> \o SplitComma(After(s, <<",">>))

\* the segments of the X-Akamai-Session-Info value of the header map
Segments ==
    IF Carried(LowerName.x_akamai_session_info) = None THEN <<>>
    ELSE SplitComma(Carried(LowerName.x_akamai_session_info)[1])

\* the segments that carry both markers
AcceptedSegments ==
    {k \in 1..Len(Segments) :
        /\ Occurs(<<"n", "a", "m", "e", "=">>, Segments[k])
        /\ Occurs(<<";", " ", "v", "a", "l", "u", "e", "=">>, Segments[k])}

\* C17: the map has keys only from segments that contain both name= and
\* ; value=, no stored value keeps ; full_location_id= or what follows it,
\* and an empty or absent value gives the empty map.
C17_AcceptanceRule ==
    Returned =>
        /\ Carried(LowerName.x_akamai_session_info) \in {None, Some(<<>>)} =>
              DOMAIN session_info = {}
        /\ Cardinality(DOMAIN session_info) <= Cardinality(AcceptedSegments)
        /\ AcceptedSegments # {} => DOMAIN session_info # {}
        /\ \A key \in DOMAIN session_info :
              /\ \E k \in AcceptedSegments : Occurs(key, Segments[k])
              /\ \E k \in AcceptedSegments : Occurs(session_info[key], Segments[k])
              /\ ~Occurs(<<";", " ", "f", "u", "l", "l", "_", "l", "o", "c", "a",
                           "t", "i", "o", "n", "_", "i", "d", "=">>,
                         session_info[key])
        /\ (\E k \in 1..Len(Segments) : Segments[k] = Sample.seg_b_loc) =>
              /\ <<"b">> \in DOMAIN session_info
              /\ session_info[<<"b">>] = <<"3">>

C17_Witness ==
    /\ Returned
    /\ Segments = <<Sample.seg_b_loc, Sample.seg_value_only>>
    /\ DOMAIN session_info = {<<"b">>}
    /\ session_info[<<"b">>] = <<"3">>

\* the orders of n segments
Orders(n) ==
    {f \in [1..n -> 1..n] : \A i, j \in 1..n : f[i] = f[j] => i = j}

\* the value whose segments are those of the header map in another order
Reordered(f) == Join(<<",">>, [i \in 1..Len(Segments) |-> Segments[f[i]]])

\* C18 as stated: parsing the segments in any order gives the same map.
C18_Original ==
    Returned =>
        \A f \in Orders(Len(Segments)) :
            parse_session_info(Reordered(f)) = session_info

\* C18: parsing the same value again gives the same map; parsing the
\* segments in another order gives a map with the same keys, in which each
\* key holds the value of the last segment, in that order, that stores the
\* key; so the map is the same whenever no two segments store the same key.
C18_Amended ==
    Returned =>
        /\ parse_session_info(Join(<<",">>, Segments)) = session_info
        /\ \A f \in Orders(Len(Segments)) :
              LET other == parse_session_info(Reordered(f))
                  Stores(i, key) ==
                      key \in DOMAIN parse_session_info(Segments[f[i]])
              IN  /\ DOMAIN other = DOMAIN session_info
                  /\ \A key \in DOMAIN other :
                        \E i \in 1..Len(Segments) :
                            /\ Stores(i, key)
                            /\ \A j \in (i + 1)..Len(Segments) : ~Stores(j, key)
                            /\ other[key] =
                                   parse_session_info(Segments[f[i]])[key]
                  /\ (\A i, j \in 1..Len(Segments) :
                         i # j =>
                            DOMAIN parse_session_info(Segments[i])
                                \cap DOMAIN parse_session_info(Segments[j]) = {})
                     => other = session_info

C18_Witness ==
    /\ Returned
    /\ Segments = <<Sample.seg_a1, Sample.seg_a2>>
    /\ session_info[<<"a">>] = <<"2">>

(***************************************************************************)
(* The letter case of header names and of the staging flag.                *)
(***************************************************************************)
\* C19: the call leaves the header map as it was, and the record it returns
\* is the record of the same map with its names in any other letter case.
C19_CaseInsensitive ==
    [][(pc = "call" /\ pc' = "return") =>
          /\ main_headers' = main_headers
          /\ \A sp \in Spellings :
                extract_analysis_data(Respell(main_headers[1], sp))
                    = main_analysis_data'[1]]_vars

C19_Witness ==
    /\ Returned
    /\ DOMAIN main_headers[1] = {Upper(SentName.x_cache)}
    /\ main_headers[1][Upper(SentName.x_cache)] = Sample.x_cache_hit
    /\ main_analysis_data[1].cache_status = <<"T", "C", "P", "_", "H", "I", "T">>

\* the value is ESSL in any letter case
IsEsslAnyCase(value) ==
    /\ Len(value) = 4
    /\ value[1] \in {"E", "e"}
    /\ value[2] \in {"S", "s"}
    /\ value[3] \in {"S", "s"}
    /\ value[4] \in {"L", "l"}

StagingFlagSet ==
    /\ Carried(LowerName.x_akamai_staging) # None
    /\ IsEsslAnyCase(Carried(LowerName.x_akamai_staging)[1])

\* C20 as stated: akamai_network is "Staging" or "Production".
C20_Original ==
    Returned =>
        main_analysis_data[1].akamai_network =
            IF StagingFlagSet THEN <<"S", "t", "a", "g", "i", "n", "g">>
            ELSE PRODUCTION

\* C20: akamai_network is "Akamai Staging" when X-Akamai-Staging is ESSL in
\* any letter case and "Akamai Production" otherwise, an absent header
\* included; the Network line of the report shows the same text.
C20_Amended ==
    Returned =>
        /\ main_analysis_data[1].akamai_network =
               <<"A", "k", "a", "m", "a", "i", " ">>
                   \o (IF StagingFlagSet
                       THEN <<"S", "t", "a", "g", "i", "n", "g">>
                       ELSE <<"P", "r", "o", "d", "u", "c", "t", "i", "o", "n">>)
        /\ print_analysis(main_analysis_data[1]).akamai_network =
               main_analysis_data[1].akamai_network

C20_Witness ==
    /\ Returned
    /\ Carried(LowerName.x_akamai_staging) = Some(Sample.essl_mixed)
    /\ main_analysis_data[1].akamai_network =
           <<"A", "k", "a", "m", "a", "i", " ", "S", "t", "a", "g", "i", "n", "g">>

(***************************************************************************)
(* The exit status of akeli5.                                              *)
(***************************************************************************)
\* the final status is there and 200 <= status < 400
StatusInRange ==
    /\ final_status # None
    /\ 200 <= final_status[1]
    /\ final_status[1] < 400

\* the command line is one argument other than -h and --help
TakesUrl ==
    /\ Len(argv) = 1
    /\ argv[1] \notin {<<"-", "h">>, <<"-", "-", "h", "e", "l", "p">>}

C27_StatusWithHeaders ==
    /\ final_status = None <=> main_headers = None
    /\ \A i \in 1..Len(stderr) :
          /\ stderr[i].what # "Website answered with code:"
          /\ stderr[i].what = "Could not get headers from the website." =>
                stderr[i].status = None

\* the redirect limit was hit: the exception carries the last response
C27_Witness ==
    /\ Exited
    /\ outcome.exception = exceptions.TooManyRedirects
    /\ final_status = Some(302)
    /\ main_headers = Some(outcome.response[1].headers)
    /\ stdout[1] = Line("Website answered with code:", Some(302))
    /\ \A i \in 1..Len(stderr) :
          stderr[i].what # "Could not get headers from the website."

(***************************************************************************)
(* A Cache-Control TTL of zero.                                            *)
(***************************************************************************)
\* C28: max-age=0 or s-maxage=0 without no-cache, no-store and private gives
\* (0, "max-age") or (0, "s-maxage") without entering the Expires/Date
\* block, whatever Expires and Date are; the block is entered only when
\* Cache-Control gave no TTL.
C28_ZeroIsChosen ==
    Returned =>
        /\ (~HasNoCache /\ (HasSMaxAge \/ HasMaxAge) /\ ChosenTtl = 0) =>
              /\ origin_ttl = TtlResult(Some(0), ChosenName)
              /\ ~fallback_entered
        /\ fallback_entered =>
              /\ ~HasSMaxAge /\ ~HasMaxAge /\ ~HasNoCache
              /\ expires # UNKNOWN /\ date_header # UNKNOWN

C28_Witness ==
    /\ Returned
    /\ cc_tokens = <<Directive(Sample.max_age, Some(0))>>
    /\ expires = Sample.date_1pm
    /\ date_header = Sample.date_noon
    /\ origin_ttl = TtlResult(Some(0), "max-age")
    /\ ~fallback_entered

(***************************************************************************)
(* What print_analysis hands to the TTL functions.                         *)
(***************************************************************************)
Printed == pc = "printed"

\* the value of a header as the TTL functions are to see it
Normalised(lower_name) ==
    IF Carried(lower_name) \in {None, Some(<<>>), Some(<<"N", "/", "A">>)}
    THEN <<"u", "n", "k", "n", "o", "w", "n">>
    ELSE Carried(lower_name)[1]

\* the header map without the headers whose value is empty or N/A
WithoutEmptyHeaders ==
    [k \in {n \in DOMAIN main_headers[1] :
               main_headers[1][n] \notin {<<>>, <<"N", "/", "A">>}} |->
        main_headers[1][k]]

\* C29: the values print_analysis hands to _parse_cache_key_ttl and
\* _parse_origin_ttl are never N/A or empty: a header that is absent, empty
\* or N/A arrives as "unknown", any other value as it is; and the Cache TTL
\* line is the one of the same header map without its empty and N/A headers.
C29_SentinelNormalised ==
    Printed =>
        /\ report[1].cache_key = Normalised(LowerName.x_cache_key)
        /\ report[1].true_cache_key = Normalised(LowerName.x_true_cache_key)
        /\ report[1].cache_control_val = Normalised(LowerName.cache_control)
        /\ report[1].expires_val = Normalised(LowerName.expires)
        /\ report[1].date_val = Normalised(LowerName.date)
        /\ \A v \in {report[1].cache_key, report[1].true_cache_key,
                     report[1].cache_control_val, report[1].expires_val,
                     report[1].date_val} :
              v \notin {<<>>, <<"N", "/", "A">>}
        /\ report[1].cache_ttl =
               print_analysis(extract_analysis_data(WithoutEmptyHeaders)).cache_ttl

C29_Witness ==
    /\ Printed
    /\ Carried(LowerName.x_cache_key) = Some(<<"N", "/", "A">>)
    /\ Carried(LowerName.cache_control) = Some(<<>>)
    /\ Carried(LowerName.x_true_cache_key) = None
    /\ report[1].cache_key = <<"u", "n", "k", "n", "o", "w", "n">>
    /\ report[1].cache_control_val = <<"u", "n", "k", "n", "o", "w", "n">>
    /\ report[1].cache_ttl.value = TtlText.unknown

(***************************************************************************)
(* The text of an origin TTL.                                              *)
(***************************************************************************)
Formatted == pc = "formatted"

\* the largest whole number of units in n seconds, by its defining property
Whole(n, unit) == CHOOSE q \in 0 .. n : q * unit <= n /\ n < (q + 1) * unit

\* C30: _format_ttl_string partitions its input: None gives "unknown"; 0
\* gives "0 seconds (effectively not cached or must revalidate)"; 1..59
\* gives "<n> seconds"; 60..3599 gives the whole minutes, 3600..86399 the
\* whole hours and 86400 or more the whole days, rounded down, so the
\* number displayed for a positive input is at least 1.
C30_Partition ==
    Formatted =>
        LET t == origin_ttl.ttl_seconds
            n == t[1]
        IN  /\ t = None => origin_ttl_str = <<"u", "n", "k", "n", "o", "w", "n">>
            /\ t # None /\ n = 0 => origin_ttl_str = TtlText.zero
            /\ t # None /\ n \in 1 .. 59 =>
                  origin_ttl_str = FormatInt(n) \o <<" ", "s", "e", "c", "o", "n", "d", "s">>
            /\ t # None /\ n \in 60 .. 3599 =>
                  /\ Whole(n, 60) \in 1 .. 59
                  /\ origin_ttl_str =
                        FormatInt(Whole(n, 60)) \o <<" ", "m", "i", "n", "u", "t", "e", "s">>
            /\ t # None /\ n \in 3600 .. 86399 =>
                  /\ Whole(n, 3600) \in 1 .. 23
                  /\ origin_ttl_str =
                        FormatInt(Whole(n, 3600)) \o <<" ", "h", "o", "u", "r", "s">>
            /\ t # None /\ n >= 86400 =>
                  /\ Whole(n, 86400) >= 1
                  /\ origin_ttl_str =
                        FormatInt(Whole(n, 86400)) \o <<" ", "d", "a", "y", "s">>

C30_Witness ==
    /\ Formatted
    /\ origin_ttl.ttl_seconds = Some(7199)
    /\ origin_ttl_str = <<"1", " ", "h", "o", "u", "r", "s">>

(***************************************************************************)
(* The directives of an akcurl run.                                        *)
(***************************************************************************)
\* the Directive Catalog, name by name
Catalog ==
    <<<<"a", "k", "a", "m", "a", "i", "-", "x", "-", "c", "a", "c", "h",
        "e", "-", "o", "n">>,
      <<"a", "k", "a", "m", "a", "i", "-", "x", "-", "c", "a", "c", "h",
        "e", "-", "r", "e", "m", "o", "t", "e", "-", "o", "n">>,
      <<"a", "k", "a", "m", "a", "i", "-", "x", "-", "c", "h", "e", "c",
        "k", "-", "c", "a", "c", "h", "e", "a", "b", "l", "e">>,
      <<"a", "k", "a", "m", "a", "i", "-", "x", "-", "g", "e", "t", "-",
        "c", "a", "c", "h", "e", "-", "k", "e", "y">>,
      <<"a", "k", "a", "m", "a", "i", "-", "x", "-", "g", "e", "t", "-",
        "e", "x", "t", "r", "a", "c", "t", "e", "d", "-", "v", "a", "l",
        "u", "e", "s">>,
      <<"a", "k", "a", "m", "a", "i", "-", "x", "-", "g", "e", "t", "-",
        "n", "o", "n", "c", "e", "s">>,
      <<"a", "k", "a", "m", "a", "i", "-", "x", "-", "g", "e", "t", "-",
        "r", "e", "q", "u", "e", "s", "t", "-", "i", "d">>,
      <<"a", "k", "a", "m", "a", "i", "-", "x", "-", "g", "e", "t", "-",
        "r", "e", "q", "u", "e", "s", "t", "-", "t", "r", "a", "c", "e">>,
      <<"a", "k", "a", "m", "a", "i", "-", "x", "-", "g", "e", "t", "-",
        "s", "s", "l", "-", "c", "l", "i", "e", "n", "t", "-", "s", "e",
        "s", "s", "i", "o", "n", "-", "i", "d">>,
      <<"a", "k", "a", "m", "a", "i", "-", "x", "-", "g", "e", "t", "-",
        "t", "r", "u", "e", "-", "c", "a", "c", "h", "e", "-", "k", "e", "y">>,
      <<"a", "k", "a", "m", "a", "i", "-", "x", "-", "s", "e", "r", "i",
        "a", "l", "-", "n", "o">>,
      <<"a", "k", "a", "m", "a", "i", "-", "x", "-", "f", "e", "o", "-",
        "t", "r", "a", "c", "e">>,
      <<"a", "k", "a", "m", "a", "i", "-", "x", "-", "g", "e", "t", "-",
        "c", "l", "i", "e", "n", "t", "-", "i", "p">>,
      <<"x", "-", "a", "k", "a", "m", "a", "i", "-", "l", "o", "g", "g",
        "i", "n", "g", "-", "m", "o", "d", "e", ":", " ", "v", "e", "r",
        "b", "o", "s", "e">>>>

Requested == pc \in {"akcurl_print", "exit"} /\ gets # <<>>

PrintedHeaders ==
    {stdout[i].status[1][1] :
        i \in {k \in 1..Len(stdout) : stdout[k].what = "header"}}

\* C26: whenever the fetch of an akcurl run returns headers, a final status
\* of 400 or more included, the headers are printed and the run exits with
\* status 0; it exits with status 1 only for an invalid URL or when no
\* headers were obtained.
C26_HeadersExitZero ==
    (Exited /\ args.parse = "ok") =>
        /\ main_headers # None =>
              /\ exit_code = Some(0)
              /\ PrintedHeaders = DOMAIN main_headers[1]
        /\ exit_code = Some(1) =>
              ~is_valid_url(args.url) \/ main_headers = None

(***************************************************************************)
(* What a run of pull.py writes to stdout, and its exit status.            *)
(***************************************************************************)
\* no repository was skipped or failed, and the last chdir succeeded
Successful ==
    /\ search_dir.is_dir
    /\ search_dir.chdir_ok
    /\ \A k \in 1..Len(git_dirs) :
          /\ git_dirs[k].safe
          /\ git_dirs[k].chdir_ok
          /\ git_dirs[k].pull_status = 0

\* C22: a run of pull_repositories prints the search directory to stdout
\* if and only if no repository was skipped or failed to pull and the final
\* chdir succeeded; its exit status is 0 in exactly that case and 1
\* otherwise; nothing else is ever written to stdout.
C22_StdoutIffSuccess ==
    /\ stdout \in {<<>>, <<Line("search_dir", None)>>}
    /\ ~Exited => stdout = <<>>
    /\ Exited =>
          /\ stdout # <<>> <=> Successful
          /\ exit_code = Some(0) <=> Successful
          /\ exit_code \in {Some(0), Some(1)}

C22_Witness ==
    /\ Exited
    /\ Len(git_dirs) = 2
    /\ git_dirs[1].pull_output = <<"Already up to date.">>
    /\ git_dirs[2].pull_output = <<"Updating 1a2b..3c4d", "Fast-forward">>
    /\ pulled = <<1, 2>>
    /\ cwd = -1
    /\ stdout = <<Line("search_dir", None)>>
    /\ exit_code = Some(0)

(***************************************************************************)
(* A failed pull in a batch.                                               *)
(***************************************************************************)
\* C23: a failed pull does not stop the batch: `git pull --ff-only` is
\* attempted in every discovered repository in order, also after an earlier
\* pull exited non-zero, with or without output, and after each repository
\* the working directory is what it was before the repository was entered.
C23_BatchContinues ==
    /\ pc = "pull_loop" => cwd = 0
    /\ (Exited /\ search_dir.is_dir) =>
          /\ \A k \in 1..Len(git_dirs) :
                (git_dirs[k].safe /\ git_dirs[k].chdir_ok) =>
                    \E i \in 1..Len(pulled) : pulled[i] = k
          /\ \A i, j \in 1..Len(pulled) : i < j => pulled[i] < pulled[j]
          /\ cwd \in {0, -1}

(***************************************************************************)
(* What cleanup.py deletes.                                                *)
(***************************************************************************)
\* the paths find lists: the matching files, and on linux the matching
\* directories
Listed ==
    {k \in 1..Len(disk) : platform = "linux" \/ disk[k] # "dir"}

Unlinked == {unlinked[i] : i \in 1..Len(unlinked)}

AnsweredYes == yn_response \in {"y", "Y"}

\* the run got past find, and met no prompt or the answer no
Declined ==
    /\ platform \in {"linux", "darwin", "freebsd"}
    /\ yn_response \in {"", "n", "N"}

\* C24 as stated: nothing is unlinked unless a file was found and the user
\* answered y; the answer n, or no match, leaves every matched file in
\* place; the temporary listing is removed at the end of each of these
\* paths.
C24_Original ==
    /\ Unlinked # {} => Listed # {} /\ AnsweredYes
    /\ (Exited /\ Declined) => Unlinked = {}
    /\ (Exited /\ (Declined \/ AnsweredYes)) => temp_file = None

\* C24: nothing is unlinked unless a path was found and the user answered
\* y, and only listed paths are unlinked; the answer n, or no match, leaves
\* every matched file in place and removes the temporary listing; after the
\* answer y the listing is removed when every listed path could be
\* unlinked, and otherwise the run stops at the first path that could not,
\* with exit status 1, the later paths in place and the listing left
\* behind.
C24_Amended ==
    /\ Unlinked # {} => Listed # {} /\ AnsweredYes
    /\ Unlinked \subseteq Listed
    /\ (Exited /\ Declined) =>
          /\ Unlinked = {}
          /\ temp_file = None
          /\ exit_code = Some(0)
    /\ (Exited /\ AnsweredYes) =>
          IF \A k \in Listed : disk[k] = "file"
          THEN /\ Unlinked = Listed
               /\ temp_file = None
               /\ exit_code = Some(0)
          ELSE /\ \E bad \in Listed :
                     /\ disk[bad] # "file"
                     /\ Unlinked = {k \in Listed : k < bad}
               /\ temp_file # None
               /\ exit_code = Some(1)

C24_Witness ==
    /\ Exited
    /\ platform = "linux"
    /\ disk = <<"file", "dir", "file">>
    /\ yn_response = "y"
    /\ unlinked = <<1>>
    /\ temp_file = Some(<<1, 2, 3>>)
    /\ exit_code = Some(1)

====
